---- MODULE Spec2Model ----
(***************************************************************************)
(* A model of vsc.utils.run: the Run class hierarchy that spawns a child   *)
(* process, feeds its stdin, waits for it (blocking, or in a poll/read     *)
(* loop with a per-chunk hook), cleans up and returns (exitcode, output).  *)
(*                                                                         *)
(* Text is a sequence of one-character strings.  One Run is followed from  *)
(* the call of cls.run(cmd, **kwargs) to the return of, or the exception   *)
(* raised by, _run(); the child process and the clock are the environment. *)
(***************************************************************************)
EXTENDS Integers, Sequences, FiniteSets, TLC

VARIABLES
    args,                  \* the arguments of cls.run: class, cmd and kwargs
    pc,                    \* position of the engine in run()/_run()
    raised,                \* the exception that left run(), or "none"
    cwd,                   \* os.getcwd() of the calling process
    cwd_before_startpath,  \* self._cwd_before_startpath
    shellcmd,              \* self._shellcmd
    popen_named_args,      \* self._popen_named_args: where the child's stdio goes
    filehandle,            \* self.filehandle (RunFile)
    process,               \* self._process: the Popen object
    process_exitcode,      \* self._process_exitcode
    process_output,        \* self._process_output
    ec,                    \* local ec of RunLoop._wait_for_process
    qa,                    \* self.qa: processed exact questions
    qa_reg,                \* self.qa_reg: processed regex questions
    hit_position,          \* self.hit_position
    loop_miss_count,       \* self._loop_miss_count
    loop_previous_ouput_length, \* self._loop_previous_ouput_length
    hits,                  \* the hits so far: question, answer used, text written
    missed,                \* the invocations of the QA hook that counted as a miss, so far
    caller,                \* the qa and qa_reg dictionaries the caller passed, as they are now
    child,                 \* the child process, its pipe and its files
    now,                   \* time.time() - self.start, in clock ticks
    trace,                 \* the engine's calls on the outside world, in order
    cmdlist,               \* a CmdList object: its elements
    cmdcall,               \* the last call on the CmdList and how it ended
    killtasks,             \* a call of Run._killtasks: its locals and its effects
    runs                   \* several Runs of one process side by side: each one and its child

engineVars == <<pc, raised, cwd, cwd_before_startpath, shellcmd, popen_named_args, filehandle,
                process, process_exitcode, process_output, ec>>
qaVars == <<qa, qa_reg, hit_position, loop_miss_count, loop_previous_ouput_length, hits, missed,
           caller>>
cmdVars == <<cmdlist, cmdcall>>
sideVars == <<cmdVars, killtasks, runs>>
vars == <<args, engineVars, qaVars, child, now, trace, sideVars>>

None == "None"

\* an optional value: Nothing is Python's None, Some(x) a value that is set
Nothing == <<>>

Some(x) == <<x>>

Get(opt) == opt[1]

(***************************************************************************)
(* Program constants.                                                      *)
(***************************************************************************)
RUNRUN_TIMEOUT_OUTPUT == <<>>
RUNRUN_TIMEOUT_EXITCODE == 123
RUNRUN_QA_MAX_MISS_EXITCODE == 124
LOOP_MAX_MISS_COUNT == 20
SIGKILL == 9

(***************************************************************************)
(* Bounds of the model.                                                    *)
(***************************************************************************)
\* self.readsize is 1024 in the source; the model reads chunks of this size
ReadSize == 2
\* capacity of the pipe between the child's stdout and the engine
PipeCap == 2
\* longest literal a child writes before it exits
MaxLit == 3
\* the buffer a streaming child can fill before the interpreter is out of memory
MaxOut == 4
\* clock ticks the model follows after construction
MaxTime == 2

(***************************************************************************)
(* Text helpers.                                                           *)
(***************************************************************************)
IsSpace(c) == c \in {" ", "\n"}

Last(s) == s[Len(s)]

Min(a, b) == IF a < b THEN a ELSE b

Drop(s, n) == SubSeq(s, n + 1, Len(s))

Take(s, n) == SubSeq(s, 1, Min(n, Len(s)))

\* vsc.utils.missing.ensure_ascii_string: a character outside ASCII is
\* replaced, clean text is returned as it is
NonAscii == "0xE9"

AsciiChar(c) == IF c = NonAscii THEN "?" ELSE c

ensure_ascii_string(s) == [i \in 1..Len(s) |-> AsciiChar(s[i])]

(***************************************************************************)
(* The class hierarchy.  A class is the set of mixins its MRO holds:       *)
(*   noshell   RunNoShell: USE_SHELL False, argv composed without a shell  *)
(*   noworries RunNoWorries: failures are logged at debug                  *)
(*   loop      RunLoop: _wait_for_process is the poll/read loop            *)
(*   async     RunAsync: _read_process never raises, recv_some is used     *)
(*   sink      RunLoopLog / RunLoopStdout                                  *)
(*   hook      RunTimeout / RunQA                                          *)
(*   target    RunFile / RunPty                                            *)
(***************************************************************************)
Cls(name, noshell, noworries, loop, async, sink, hook, target) ==
    [name |-> name, noshell |-> noshell, noworries |-> noworries, loop |-> loop,
     async |-> async, sink |-> sink, hook |-> hook, target |-> target]

ShellClasses == {
    Cls("Run",                FALSE, FALSE, FALSE, FALSE, "none",   "none",    "pipe"),
    Cls("RunNoWorries",       FALSE, TRUE,  FALSE, FALSE, "none",   "none",    "pipe"),
    Cls("RunLoop",            FALSE, FALSE, TRUE,  FALSE, "none",   "none",    "pipe"),
    Cls("RunLoopLog",         FALSE, FALSE, TRUE,  FALSE, "log",    "none",    "pipe"),
    Cls("RunLoopStdout",      FALSE, FALSE, TRUE,  FALSE, "stdout", "none",    "pipe"),
    Cls("RunAsync",           FALSE, FALSE, FALSE, TRUE,  "none",   "none",    "pipe"),
    Cls("RunFile",            FALSE, FALSE, FALSE, FALSE, "none",   "none",    "file"),
    Cls("RunPty",             FALSE, FALSE, FALSE, FALSE, "none",   "none",    "pty"),
    Cls("RunTimeout",         FALSE, FALSE, TRUE,  TRUE,  "none",   "timeout", "pipe"),
    Cls("RunQA",              FALSE, FALSE, TRUE,  TRUE,  "none",   "qa",      "pipe"),
    Cls("RunAsyncLoop",       FALSE, FALSE, TRUE,  TRUE,  "none",   "none",    "pipe"),
    Cls("RunAsyncLoopLog",    FALSE, FALSE, TRUE,  TRUE,  "log",    "none",    "pipe"),
    Cls("RunQALog",           FALSE, FALSE, TRUE,  TRUE,  "log",    "qa",      "pipe"),
    Cls("RunQAStdout",        FALSE, FALSE, TRUE,  TRUE,  "stdout", "qa",      "pipe"),
    Cls("RunAsyncLoopStdout", FALSE, FALSE, TRUE,  TRUE,  "stdout", "none",    "pipe") }

\* every class has a NoShell form: RunNoShell first in its bases
NoShellName(name) == CASE name = "Run" -> "RunNoShell"
                       [] name = "RunNoWorries" -> "RunNoShellNoWorries"
                       [] name = "RunLoop" -> "RunNoShellLoop"
                       [] name = "RunLoopLog" -> "RunNoShellLoopLog"
                       [] name = "RunLoopStdout" -> "RunNoShellLoopStdout"
                       [] name = "RunAsync" -> "RunNoShellAsync"
                       [] name = "RunFile" -> "RunNoShellFile"
                       [] name = "RunPty" -> "RunNoShellPty"
                       [] name = "RunTimeout" -> "RunNoShellTimeout"
                       [] name = "RunQA" -> "RunNoShellQA"
                       [] name = "RunAsyncLoop" -> "RunNoShellAsyncLoop"
                       [] name = "RunAsyncLoopLog" -> "RunNoShellAsyncLoopLog"
                       [] name = "RunQALog" -> "RunNoShellQALog"
                       [] name = "RunQAStdout" -> "RunNoShellQAStdout"
                       [] name = "RunAsyncLoopStdout" -> "RunNoShellAsyncLoopStdout"

NoShellClasses == { [c EXCEPT !.name = NoShellName(c.name), !.noshell = TRUE] : c \in ShellClasses }

RunClasses == ShellClasses \cup NoShellClasses

\* class attributes
INIT_INPUT_CLOSE_Never(cls) == FALSE
INIT_INPUT_CLOSE(cls) == cls.hook # "qa"

USE_SHELL(cls) == ~cls.noshell

IsTimeoutClass(cls) == cls.hook = "timeout"

IsQAClass(cls) == cls.hook = "qa"

(***************************************************************************)
(* Regular expressions of the QA tables.  A compiled question is a         *)
(* sequence of elements followed by the anchor [\s\n]*$ :                  *)
(*   lit c   the (escaped) character c                                     *)
(*   ws      [\s\n]+                                                       *)
(*   grp     (?P<n>\S): one named group that takes one character           *)
(***************************************************************************)
Lit(c) == [k |-> "lit", c |-> c]

Ws == [k |-> "ws", c |-> ""]

Grp == [k |-> "grp", c |-> ""]

\* the directive %(n)s of an answer template, one element of the answer text
Directive == "%(n)s"

RECURSIVE AllSpace(_)
AllSpace(s) == s = <<>> \/ (IsSpace(Head(s)) /\ AllSpace(Tail(s)))

RECURSIVE DropSpaces(_)
DropSpaces(s) == IF s # <<>> /\ IsSpace(Head(s)) THEN DropSpaces(Tail(s)) ELSE s

\* s as a whole matches pat followed by [\s\n]*$
RECURSIVE Matches(_, _)
Matches(pat, s) ==
    IF pat = <<>> THEN AllSpace(s)
    ELSE /\ s # <<>>
         /\ CASE Head(pat).k = "lit" -> Head(s) = Head(pat).c /\ Matches(Tail(pat), Tail(s))
              [] Head(pat).k = "grp" -> ~IsSpace(Head(s)) /\ Matches(Tail(pat), Tail(s))
              [] Head(pat).k = "ws"  -> /\ IsSpace(Head(s))
                                        /\ \/ Matches(pat, Tail(s))
                                           \/ Matches(Tail(pat), Tail(s))

\* question.search(text): the start of the leftmost match, 0 when there is none
Search(pat, text) ==
    LET starts == { i \in 1..(Len(text) + 1) : Matches(pat, Drop(text, i - 1)) }
    IN  IF starts = {} THEN 0 ELSE CHOOSE i \in starts : \A j \in starts : i <= j

\* the character the named group took in a match of pat on s, None without a group
RECURSIVE Capture(_, _)
Capture(pat, s) ==
    IF pat = <<>> \/ s = <<>> THEN None
    ELSE CASE Head(pat).k = "lit" -> Capture(Tail(pat), Tail(s))
           [] Head(pat).k = "grp" -> Head(s)
           [] Head(pat).k = "ws"  -> Capture(Tail(pat), DropSpaces(s))

\* res.groupdict() of the leftmost match
Groupdict(pat, text) == Capture(pat, Drop(text, Search(pat, text) - 1))

\* answer % groupdict: every directive is replaced by the group's text; a
\* directive without its group is a KeyError
RenderFails(answer, group) == group = None /\ \E i \in 1..Len(answer) : answer[i] = Directive

Render(answer, group) ==
    [i \in 1..Len(answer) |-> IF answer[i] = Directive THEN group ELSE answer[i]]

(***************************************************************************)
(* RunQA._parse_qa                                                         *)
(***************************************************************************)
\* process_question: the runs of whitespace of the question become [\s\n]+,
\* every other character is escaped and matches itself
RECURSIVE process_question(_)
process_question(question) ==
    IF question = <<>> THEN <<>>
    ELSE IF IsSpace(Head(question))
         THEN <<Ws>> \o process_question(DropSpaces(question))
         ELSE <<Lit(Head(question))>> \o process_question(Tail(question))

\* a newline appended to every answer
AddNewline_Always(a) == Append(a, "\n")

\* answers.endswith('\n') decides whether a newline is appended
AddNewline(a) == IF a # <<>> /\ Last(a) = "\n" THEN a ELSE Append(a, "\n")

\* process_answers raises for an answer that is no string and no list
AnswersInvalid(answers) == answers.kind \notin {"str", "list"}

\* process_answers: a string becomes a list of one, a list is copied, and
\* with add_newline every answer without a trailing newline gets one
\* (an answer of another type stays in the table as it is when raiseException
\* does not raise: BadAnswers stands for it)
BadAnswers == << <<"<int>">> >>

process_answers(answers, add_newline) ==
    LET lst == IF answers.kind = "str" THEN <<answers.val>> ELSE answers.val
    IN  IF AnswersInvalid(answers) THEN BadAnswers
        ELSE IF add_newline THEN [i \in 1..Len(lst) |-> AddNewline(lst[i])] ELSE lst

\* process_answers working on the caller's own list: no copy taken
SharesList_NoCopy(answers) == answers.kind = "list"

\* the list process_answers works on, and the hook rotates, is the caller's
\* own: never, a string is put into a new list and a list is copied
SharesList(answers) == FALSE

\* the caller's dictionary as the caller sees it: a list that is shared with
\* the run's own table holds what the run has made of it
CallerSees(table, own) ==
    [i \in 1..Len(table) |->
        IF SharesList(table[i].a) /\ i <= Len(own)
        THEN [table[i] EXCEPT !.a.val = own[i].answers]
        ELSE table[i]]

\* new_qa[reg_q] = ... on a dict: a key that is there keeps its place
DictSet(d, key, val) ==
    IF \E i \in 1..Len(d) : d[i].q = key
    THEN [i \in 1..Len(d) |-> IF d[i].q = key THEN [q |-> key, answers |-> val] ELSE d[i]]
    ELSE Append(d, [q |-> key, answers |-> val])

RECURSIVE ParseTable(_, _, _, _)
ParseTable(table, exact, add_newline, acc) ==
    IF table = <<>> THEN acc
    ELSE LET reg_q == IF exact THEN process_question(Head(table).q) ELSE Head(table).q
         IN  ParseTable(Tail(table), exact, add_newline,
                        DictSet(acc, reg_q, process_answers(Head(table).a, add_newline)))

\* some answer of the caller's tables is refused by process_answers
ParseQARaises(a) ==
    \/ \E i \in 1..Len(a.qa) : AnswersInvalid(a.qa[i].a)
    \/ \E i \in 1..Len(a.qa_reg) : AnswersInvalid(a.qa_reg[i].a)

(***************************************************************************)
(* _make_shell_command                                                     *)
(***************************************************************************)
Backslash == "\\"

\* str(arg).replace(' ', '\ ')
RECURSIVE EscapeSpaces(_)
EscapeSpaces(arg) ==
    IF arg = <<>> THEN <<>>
    ELSE (IF Head(arg) = " " THEN <<Backslash, " ">> ELSE <<Head(arg)>>) \o EscapeSpaces(Tail(arg))

\* " ".join(...)
RECURSIVE JoinArgs(_)
JoinArgs(tokens) ==
    IF tokens = <<>> THEN <<>>
    ELSE IF Len(tokens) = 1 THEN EscapeSpaces(tokens[1])
    ELSE EscapeSpaces(tokens[1]) \o <<" ">> \o JoinArgs(Tail(tokens))

\* shlex.split (POSIX): whitespace separates, quotes group and are removed, a
\* backslash escapes; the result is the token list, or "ValueError" for an
\* open quotation or a trailing backslash
RECURSIVE Shlex(_, _, _, _, _)
Shlex(s, state, cur, started, acc) ==
    IF s = <<>>
    THEN IF state # "out" THEN [ok |-> FALSE, tokens |-> <<>>]
         ELSE [ok |-> TRUE, tokens |-> IF started THEN Append(acc, cur) ELSE acc]
    ELSE LET c == Head(s)
             rest == Tail(s)
         IN  CASE state = "sq" ->
                    IF c = "'" THEN Shlex(rest, "out", cur, TRUE, acc)
                    ELSE Shlex(rest, "sq", Append(cur, c), TRUE, acc)
               [] state = "dq" ->
                    IF c = "\"" THEN Shlex(rest, "out", cur, TRUE, acc)
                    ELSE IF c = Backslash /\ rest # <<>> /\ Head(rest) \in {Backslash, "\""}
                         THEN Shlex(Tail(rest), "dq", Append(cur, Head(rest)), TRUE, acc)
                    ELSE Shlex(rest, "dq", Append(cur, c), TRUE, acc)
               [] OTHER ->
                    IF IsSpace(c)
                    THEN IF started THEN Shlex(rest, "out", <<>>, FALSE, Append(acc, cur))
                         ELSE Shlex(rest, "out", <<>>, FALSE, acc)
                    ELSE IF c = "'" THEN Shlex(rest, "sq", cur, TRUE, acc)
                    ELSE IF c = "\"" THEN Shlex(rest, "dq", cur, TRUE, acc)
                    ELSE IF c = Backslash
                         THEN IF rest = <<>> THEN [ok |-> FALSE, tokens |-> <<>>]
                              ELSE Shlex(Tail(rest), "out", Append(cur, Head(rest)), TRUE, acc)
                    ELSE Shlex(rest, "out", Append(cur, c), TRUE, acc)

\* [ok, tokens]: ok is FALSE where shlex.split raises ValueError
shlex_split(s) == Shlex(s, "out", <<>>, FALSE, <<>>)

\* a command: None, a string, a list or tuple of tokens, or another object
CmdNone == [kind |-> "None", val |-> <<>>]

CmdStr(text) == [kind |-> "str", val |-> text]

CmdList(tokens) == [kind |-> "list", val |-> tokens]

CmdOther == [kind |-> "other", val |-> <<>>]

CmdIsSequence(cmd) == cmd.kind \in {"list", "tuple"}

\* RunNoShell._make_shell_command raises out of shlex.split
ShlexRaises(cls, cmd) == cls.noshell /\ cmd.kind = "str" /\ ~shlex_split(cmd.val).ok

\* a composition that hands a string on as it is, under every class
make_shell_command_Unsplit(cls, cmd) ==
    IF cmd.kind = "str" THEN cmd
    ELSE IF CmdIsSequence(cmd)
    THEN IF cls.noshell THEN cmd ELSE CmdStr(JoinArgs(cmd.val))
    ELSE CmdNone

\* the value _make_shell_command leaves in self._shellcmd (CmdNone: none set)
make_shell_command(cls, cmd) ==
    IF cmd.kind = "str"
    THEN IF cls.noshell THEN CmdList(shlex_split(cmd.val).tokens) ELSE cmd
    ELSE IF CmdIsSequence(cmd)
    THEN IF cls.noshell THEN cmd ELSE CmdStr(JoinArgs(cmd.val))
    ELSE CmdNone

(***************************************************************************)
(* The arguments of a run and the children it is run on.                   *)
(***************************************************************************)
\* self.log.raiseException raises unless disable_log replaced the logger by
\* DummyFunction, whose every method does nothing
RaiseExceptionRaises(a) == ~a.disable_log

\* startpath: None, a directory, a directory chdir is refused on, a path that
\* is a regular file, a path that does not exist
StartPaths == {"None", "dir", "noperm", "file", "missing"}

\* filename of RunFile: not given, a new file, an existing regular file, an
\* existing file open() is refused on, a directory
Filenames == {"None", "new", "file", "unwritable", "dir"}

Str(a, b) == <<a, b>>

Cmds == {CmdNone, CmdStr(<<"e", " ", "h">>), CmdList(<<Str("e", "c"), <<"h">>>>), CmdOther}

Inputs == {Nothing, Some(<<"i">>)}

\* an input that does not fit into the pipe to the child's stdin
LongInput == Some([i \in 1..(PipeCap + 1) |-> "i"])

Timeouts == {Nothing, Some(0), Some(1)}

AnsStr(text) == [kind |-> "str", val |-> text]

AnsList(lst) == [kind |-> "list", val |-> lst]

AnsOther == [kind |-> "other", val |-> <<>>]

NoTable == [qa |-> <<>>, qa_reg |-> <<>>, no_qa |-> <<>>, add_newline |-> TRUE]

\* qa={"q": ["a", "b"]}
TableCycle == [NoTable EXCEPT !.qa = << [q |-> <<"q">>, a |-> AnsList(<< <<"a">>, <<"b">> >>)] >>]

\* qa={"q": "a"}
TableOne == [NoTable EXCEPT !.qa = << [q |-> <<"q">>, a |-> AnsStr(<<"a">>)] >>]

\* qa_reg={r"(?P<n>\S)q": ["%(n)s", "b"]}
TableGroup ==
    [NoTable EXCEPT !.qa_reg = << [q |-> <<Grp, Lit("q")>>,
                                   a |-> AnsList(<< <<Directive>>, <<"b">> >>)] >>]

\* qa={"q": ["a", "b"]}, qa_reg={"q": "c"}
TableBoth == [TableCycle EXCEPT !.qa_reg = << [q |-> <<Lit("q")>>, a |-> AnsStr(<<"c">>)] >>]

\* qa={"q": "a", "x": "b"}
TableTwo == [NoTable EXCEPT !.qa = << [q |-> <<"q">>, a |-> AnsStr(<<"a">>)],
                                      [q |-> <<"x">>, a |-> AnsStr(<<"b">>)] >>]

\* qa={"q": "a"}, no_qa=["x"]
TableNoQA == [TableOne EXCEPT !.no_qa = << <<Lit("x")>> >>]

\* qa={"z": "a"}
TableNever == [NoTable EXCEPT !.qa = << [q |-> <<"z">>, a |-> AnsStr(<<"a">>)] >>]

\* qa={"": "a"}: a question that matches at the end of any output
TableEmpty == [NoTable EXCEPT !.qa = << [q |-> <<>>, a |-> AnsStr(<<"a">>)] >>]

\* qa={"q": 5}
TableBad == [NoTable EXCEPT !.qa = << [q |-> <<"q">>, a |-> AnsOther] >>]

\* what the command does once spawned is drawn from args.plans
\* the literals a child writes: the prefixes of one text
LitText == <<"q", " ", "x", NonAscii>>

Literals == { Take(LitText, n) : n \in 0..MaxLit }

ExitCodes == {0, 7}

\* a child writes its literal and exits with its code ("exit"), writes its
\* literal and then waits for ever ("hang"), or writes without end ("stream");
\* the characters at the positions err go to its stderr, the others to stdout;
\* it reads what comes on its stdin, unless reads is false
Plan(lit, code, mode) ==
    [lit |-> lit, code |-> code, mode |-> mode, err |-> {}, reads |-> TRUE]

\* a child that leaves its stdin alone
DeafPlan(lit, code, mode) == [Plan(lit, code, mode) EXCEPT !.reads = FALSE]

ErrPlan(lit, err, code) == [Plan(lit, code, "exit") EXCEPT !.err = err]

\* children that write to both streams, or to stderr only
ErrPlans == {ErrPlan(<<"q", " ", "x">>, {2}, 0), ErrPlan(<<"q">>, {1}, 7)}

Plans == { Plan(lit, code, "exit") : lit \in Literals, code \in ExitCodes } \cup ErrPlans

\* the dialogues a QA child holds: prefixes of two texts
QALiterals == { Take(t, n) : t \in {<<"q", "q", "q", "q">>, <<"x", "q", " ", "q">>},
                             n \in 0..MaxLit }

QAPlans == { Plan(lit, 0, mode) : lit \in QALiterals, mode \in {"exit", "hang"} }
            \cup {Plan(<<>>, 0, "stream")}

ShortPlans == { Plan(lit, code, "exit") : lit \in {<<>>, <<"q">>}, code \in ExitCodes }

\* the convenient names of the module: what each name is bound to, the run
\* classmethod of a class or the class itself
EntryPoint(name, cls, attr) == [name |-> name, cls |-> cls, attr |-> attr]

PublicEntryPoints == {
    EntryPoint("run",             "RunNoShell",                "run"),
    EntryPoint("noworries",       "RunNoShellNoWorries",       "run"),
    EntryPoint("async_run",       "RunNoShellAsync",           "run"),
    EntryPoint("asyncloop",       "RunNoShellAsyncLoop",       "run"),
    EntryPoint("timeout",         "RunNoShellTimeout",         "class"),
    EntryPoint("run_file",        "RunNoShellFile",            "run"),
    EntryPoint("async_to_stdout", "RunNoShellAsyncLoopStdout", "run"),
    EntryPoint("qa",              "RunNoShellQA",              "run"),
    EntryPoint("qa_log",          "RunNoShellQALog",           "run"),
    EntryPoint("qastdout",        "RunNoShellQAStdout",        "run") }

DeprecatedEntryPoints == {
    EntryPoint("run_simple",           "Run",                "run"),
    EntryPoint("run_simple_noworries", "RunNoWorries",       "run"),
    EntryPoint("run_async",            "RunAsync",           "run"),
    EntryPoint("run_asyncloop",        "RunAsyncLoop",       "run"),
    EntryPoint("run_timeout",          "RunTimeout",         "run"),
    EntryPoint("run_to_file",          "RunFile",            "run"),
    EntryPoint("run_async_to_stdout",  "RunAsyncLoopStdout", "run"),
    EntryPoint("run_qa",               "RunQA",              "run"),
    EntryPoint("run_qalog",            "RunQALog",           "run"),
    EntryPoint("run_qastdout",         "RunQAStdout",        "run") }

EntryPoints == PublicEntryPoints \cup DeprecatedEntryPoints

\* the call goes through cls.run: always when the class is called on directly
\* (entry None), else when the name is bound to the classmethod
BoundToRun(a) == a.entry = None \/ \E e \in EntryPoints : e.name = a.entry /\ e.attr = "run"

Args(cls, cmd, input, startpath, disable_log, timeout, table, filename, plans) ==
    [entry |-> None, cls |-> cls, cmd |-> cmd, input |-> input, startpath |-> startpath, plans |-> plans,
     disable_log |-> disable_log, timeout |-> timeout, qa |-> table.qa,
     qa_reg |-> table.qa_reg, no_qa |-> table.no_qa, add_newline |-> table.add_newline,
     filename |-> filename]

\* the keyword arguments a class reads: timeout (RunTimeout), the tables
\* (RunQA), filename (RunFile)
ArgsOf(classes, cmds, inputs, startpaths, logs, timeouts, tables, filenames, plans) ==
    { Args(cls, cmd, input, startpath, disable_log, timeout, table, filename, plans) :
        cls \in classes, cmd \in cmds, input \in inputs, startpath \in startpaths,
        disable_log \in logs, timeout \in timeouts, table \in tables,
        filename \in filenames }

(***************************************************************************)
(* CmdList: a list of command tokens that only add() may extend.           *)
(*                                                                         *)
(* A Python object is a record of its type, with the text of a str and the *)
(* elements of a list or tuple.  A format string holds its                 *)
(* directives as single elements: %(n)s with the key 'n', and %( k)s with  *)
(* the key ' k', a directive whose own text holds a space.  A mapping      *)
(* gives each of the two keys a text, or Nothing where it lacks the key.   *)
(***************************************************************************)
StrObj(text) == [type |-> "str", text |-> text, elems |-> <<>>]

IntObj == [type |-> "int", text |-> <<>>, elems |-> <<>>]

SeqObj(type, elems) == [type |-> type, text |-> <<>>, elems |-> elems]

SpacedDirective == "%( k)s"

IsDirective(c) == c \in {Directive, SpacedDirective}

DirectiveKey(c) == IF c = Directive THEN "n" ELSE "k"

\* ' ' in item
HasSpace(text) == \E i \in 1..Len(text) : text[i] \in {" ", SpacedDirective}

\* if tmpl_vals: an absent or an empty mapping is false
Truthy(tmpl_vals) ==
    tmpl_vals # Nothing /\ \E key \in DOMAIN Get(tmpl_vals) : Get(tmpl_vals)[key] # Nothing

\* item % tmpl_vals of a str: a directive whose key is missing is a KeyError
FormatFails(text, mapping) ==
    \E i \in 1..Len(text) : IsDirective(text[i]) /\ mapping[DirectiveKey(text[i])] = Nothing

RECURSIVE Format(_, _)
Format(text, mapping) ==
    IF text = <<>> THEN <<>>
    ELSE (IF IsDirective(Head(text)) THEN Get(mapping[DirectiveKey(Head(text))]) ELSE <<Head(text)>>)
         \o Format(Tail(text), mapping)

SpaceRejected_Never(item, allow_spaces) == FALSE

\* if not allow_spaces and ' ' in item
SpaceRejected(item, allow_spaces) == ~allow_spaces /\ HasSpace(item.text)

\* the loop of add over the items: every item is formatted, checked and
\* appended in turn, so the items before a refused one stay in the list
RECURSIVE AddItems(_, _, _, _)
AddItems(lst, elems, tmpl_vals, allow_spaces) ==
    IF elems = <<>> THEN [list |-> lst, raised |-> None]
    ELSE LET item == Head(elems)
             fmt == Truthy(tmpl_vals)
         IN  IF fmt /\ item.type # "str"
             THEN [list |-> lst, raised |-> "TypeError"]
             ELSE IF fmt /\ FormatFails(item.text, Get(tmpl_vals))
             THEN [list |-> lst, raised |-> "KeyError"]
             ELSE LET it == IF fmt THEN StrObj(Format(item.text, Get(tmpl_vals)))
                            ELSE item
                  IN  IF it.type # "str" THEN [list |-> lst, raised |-> "ValueError"]
                      ELSE IF SpaceRejected(it, allow_spaces)
                      THEN [list |-> lst, raised |-> "ValueError"]
                      ELSE AddItems(Append(lst, it), Tail(elems), tmpl_vals, allow_spaces)

\* an add that checks all items before it appends any
add_AllOrNothing(lst, items, tmpl_vals, allow_spaces) ==
    LET res == AddItems(lst, IF items.type \in {"list", "tuple"} THEN items.elems ELSE <<items>>,
                        tmpl_vals, allow_spaces)
    IN  IF res.raised = None THEN res ELSE [res EXCEPT !.list = lst]

\* CmdList.add(items, tmpl_vals, allow_spaces): anything but a list or a
\* tuple is taken as one item
add(lst, items, tmpl_vals, allow_spaces) ==
    AddItems(lst, IF items.type \in {"list", "tuple"} THEN items.elems ELSE <<items>>,
             tmpl_vals, allow_spaces)

\* no call of _killtasks yet
NoKilltasks == [pc |-> "idle", tasks |-> <<>>, kill_pgid |-> FALSE, pids |-> <<>>,
                signalled |-> <<>>, logged |-> <<>>, calls |-> <<>>, raised |-> None]

\* the call that led to the current list: none yet
NoCall == [op |-> None, items |-> SeqObj("tuple", <<>>), tmpl_vals |-> Nothing,
           allow_spaces |-> TRUE, raised |-> None, before |-> <<>>]

NoProcess == [spawned |-> FALSE, stdin |-> None, stdout |-> None]

\* the Runs of one process that are active side by side
MaxRuns == 2

\* a Run that has not spawned its child: its place in run(), its hook, the
\* state of its child, the exit status the kernel holds for the child, the
\* Run whose waitpid took that status (0 for none), and the code it returns
IdleRun == [pc |-> "idle", hook |-> "none", child |-> "none", status |-> <<>>,
            reaped_by |-> 0, code |-> <<>>]

NoRuns == [i \in 1..MaxRuns |-> IdleRun]

\* Run.SHELL, the module constant; RunNoShell.SHELL is None
SHELL(cls) == IF cls.noshell THEN None ELSE "/bin/bash"

\* what Popen is called with: the command and the named arguments shell and
\* executable
PopenCall(cmd, cls) == [cmd |-> cmd, shell |-> USE_SHELL(cls), executable |-> SHELL(cls)]

NoChild == [state |-> "none", todo |-> <<>>, mode |-> "exit", code |-> 0, err |-> {},
            reads |-> TRUE, spawn |-> PopenCall(CmdNone, [noshell |-> TRUE]),
            status |-> Nothing, sink |-> None, errsink |-> None, pipe |-> <<>>,
            written |-> <<>>, to_stdout |-> <<>>, got |-> <<>>, file |-> Nothing]

\* the invocations of the hook of a QA run since the latest hit that found no
\* question matching, an output no longer than the length the hook has noted
\* and no no_qa pattern matching, counted up to one above the miss limit
MissedAfter(m, hit, longer, noqa) ==
    IF hit THEN 0
    ELSE IF longer \/ noqa \/ m > LOOP_MAX_MISS_COUNT THEN m ELSE m + 1

InitWith(argset) ==
    /\ args \in argset
    /\ pc = "call"
    /\ raised = None
    /\ cwd = "orig"
    /\ cwd_before_startpath = None
    /\ shellcmd = CmdNone
    /\ popen_named_args = [stdout |-> None, stderr |-> None, stdin |-> None]
    /\ filehandle = None
    /\ process = NoProcess
    /\ process_exitcode = Nothing
    /\ process_output = Nothing
    /\ ec = Nothing
    /\ qa = <<>>
    /\ qa_reg = <<>>
    /\ hit_position = 0
    /\ loop_miss_count = 0
    /\ loop_previous_ouput_length = 0
    /\ hits = <<>>
    /\ missed = 0
    /\ caller = [qa |-> args.qa, qa_reg |-> args.qa_reg]
    /\ child = [NoChild EXCEPT !.file = IF args.filename \in {"file", "unwritable"}
                                        THEN Some(<<"o">>) ELSE Nothing]
    /\ now = 0
    /\ trace = <<>>
    /\ cmdlist = <<>>
    /\ cmdcall = NoCall
    /\ killtasks = NoKilltasks
    /\ runs = NoRuns

(***************************************************************************)
(* Construction: cls(cmd, **kwargs)                                        *)
(***************************************************************************)
\* RunTimeout.__init__: float(kwargs.pop('timeout', None))
TimeoutRaises(a) == IsTimeoutClass(a.cls) /\ a.timeout = Nothing

\* RunQA.__init__: process_answers refuses the answer; where raiseException
\* does nothing the loop over enumerate(answers) raises instead
ParseRaises(a) ==
    IsQAClass(a.cls) /\ ParseQARaises(a) /\ (RaiseExceptionRaises(a) \/ a.add_newline)

Construct ==
    /\ pc = "call"
    /\ IF TimeoutRaises(args) \/ ParseRaises(args)
       THEN /\ pc' = "raised"
            /\ raised' = "TypeError"
            /\ UNCHANGED <<qa, qa_reg, caller>>
       ELSE \* a name bound to the class gives back the new object and runs nothing
            /\ pc' = IF BoundToRun(args) THEN "start_in_path" ELSE "instance"
            /\ raised' = raised
            /\ qa' = IF IsQAClass(args.cls)
                     THEN ParseTable(args.qa, TRUE, args.add_newline, <<>>) ELSE <<>>
            /\ qa_reg' = IF IsQAClass(args.cls)
                         THEN ParseTable(args.qa_reg, FALSE, args.add_newline, <<>>) ELSE <<>>
            /\ caller' = IF IsQAClass(args.cls)
                         THEN [qa |-> CallerSees(caller.qa, qa'),
                               qa_reg |-> CallerSees(caller.qa_reg, qa_reg')]
                         ELSE caller
    /\ UNCHANGED <<sideVars, args, cwd, cwd_before_startpath, shellcmd, popen_named_args, filehandle,
                   process, process_exitcode, process_output, ec,
                   hit_position, loop_miss_count, loop_previous_ouput_length, hits, missed,
                   child, now, trace>>

(***************************************************************************)
(* Run._run_pre                                                            *)
(***************************************************************************)
\* _start_in_path raises: the path is missing, is no directory, or chdir fails
StartPathInvalid(startpath) == startpath \in {"noperm", "file", "missing"}

StartInPath ==
    /\ pc = "start_in_path"
    /\ cwd_before_startpath' = IF args.startpath \in {"dir", "noperm"} THEN cwd
                               ELSE cwd_before_startpath
    /\ cwd' = IF args.startpath = "dir" THEN "startpath" ELSE cwd
    /\ trace' = IF args.startpath = "dir" THEN Append(trace, "chdir") ELSE trace
    /\ IF StartPathInvalid(args.startpath) /\ RaiseExceptionRaises(args)
       THEN pc' = "raised" /\ raised' = "Exception"
       ELSE pc' = "make_shell_command" /\ raised' = raised
    /\ UNCHANGED <<sideVars, args, shellcmd, popen_named_args, filehandle, process, process_exitcode,
                   process_output, ec, qaVars, child, now>>

\* _make_shell_command raises: no command, or a command of another type
CmdInvalid(cmd) == cmd.kind # "str" /\ ~CmdIsSequence(cmd)

MakeShellCommand ==
    /\ pc = "make_shell_command"
    /\ IF CmdInvalid(args.cmd) /\ RaiseExceptionRaises(args)
       THEN pc' = "raised" /\ raised' = "Exception" /\ UNCHANGED <<shellcmd, trace>>
       ELSE IF ShlexRaises(args.cls, args.cmd)
       THEN pc' = "raised" /\ raised' = "ValueError" /\ UNCHANGED <<shellcmd, trace>>
       ELSE /\ pc' = "make_popen_named_args"
            /\ raised' = raised
            /\ shellcmd' = make_shell_command(args.cls, args.cmd)
            /\ trace' = Append(trace, "compose")
    /\ UNCHANGED <<sideVars, args, cwd, cwd_before_startpath, popen_named_args, filehandle, process,
                   process_exitcode, process_output, ec, qaVars, child, now>>

\* RunFile._make_popen_named_args raises through raiseException
FileTargetInvalid(filename) == filename \in {"dir", "unwritable"}

\* open(self.filename, 'w') succeeds and truncates the file
FileOpens(filename) == filename \in {"new", "file"}

OpenForWriting_Append(file) == IF file = Nothing THEN Some(<<>>) ELSE file

\* open(self.filename, 'w'): the file is created, or cut to nothing
OpenForWriting(file) == Some(<<>>)

BaseNamedArgs_StderrInherited == [stdout |-> "PIPE", stderr |-> None, stdin |-> "PIPE"]

\* Run._make_popen_named_args before the update with others
BaseNamedArgs == [stdout |-> "PIPE", stderr |-> "STDOUT", stdin |-> "PIPE"]

MakePopenNamedArgs ==
    /\ pc = "make_popen_named_args"
    /\ IF args.cls.target = "file"
       THEN IF args.filename = None
            THEN \* os.path.exists(None)
                 /\ pc' = "raised" /\ raised' = "TypeError"
                 /\ UNCHANGED <<popen_named_args, filehandle, child, trace>>
            ELSE IF FileTargetInvalid(args.filename) /\ RaiseExceptionRaises(args)
            THEN /\ pc' = "raised" /\ raised' = "Exception"
                 /\ UNCHANGED <<popen_named_args, filehandle, child, trace>>
            ELSE /\ pc' = "init_process" /\ raised' = raised
                 /\ filehandle' = IF FileOpens(args.filename) THEN "open" ELSE None
                 /\ child' = IF FileOpens(args.filename)
                             THEN [child EXCEPT !.file = OpenForWriting(@)] ELSE child
                 /\ trace' = IF FileOpens(args.filename)
                             THEN Append(trace, "open_file") ELSE trace
                 /\ popen_named_args' =
                        [BaseNamedArgs EXCEPT
                           !.stdout = IF FileOpens(args.filename) THEN "file" ELSE None]
       ELSE /\ pc' = "init_process" /\ raised' = raised
            /\ popen_named_args' = IF args.cls.target = "pty"
                                   THEN [stdout |-> "slave", stderr |-> "slave",
                                         stdin |-> "slave"]
                                   ELSE BaseNamedArgs
            /\ UNCHANGED <<filehandle, child, trace>>
    /\ UNCHANGED <<sideVars, args, cwd, cwd_before_startpath, shellcmd, process, process_exitcode,
                   process_output, ec, qaVars, now>>

\* the handle Popen keeps for a standard stream: only for a PIPE
Handle(target) == IF target = "PIPE" THEN "open" ELSE None

\* where the bytes the child writes to stdout go
SinkOf(target) == CASE target = "PIPE" -> "pipe"
                    [] target = "file" -> "file"
                    [] target = "slave" -> "pty"
                    [] OTHER -> "inherit"

\* where the bytes the child writes to stderr go: with stderr=STDOUT to the
\* file descriptor of its stdout
ErrSinkOf(named_args) == IF named_args.stderr = "STDOUT" THEN SinkOf(named_args.stdout)
                         ELSE SinkOf(named_args.stderr)

InitProcess ==
    /\ pc = "init_process"
    /\ IF shellcmd = CmdNone
       THEN \* Popen(None, ...): list(None) raises
            /\ pc' = "raised" /\ raised' = "TypeError"
            /\ UNCHANGED <<process, child, trace>>
       ELSE \E spawned \in BOOLEAN :
            IF spawned
            THEN /\ pc' = "init_input" /\ raised' = raised
                 /\ process' = [spawned |-> TRUE, stdin |-> Handle(popen_named_args.stdin),
                                stdout |-> Handle(popen_named_args.stdout)]
                 /\ \E plan \in args.plans :
                      child' = [child EXCEPT !.state = "running",
                                             !.sink = SinkOf(popen_named_args.stdout),
                                             !.errsink = ErrSinkOf(popen_named_args),
                                             !.todo = plan.lit, !.code = plan.code,
                                             !.mode = plan.mode, !.err = plan.err,
                                             !.reads = plan.reads,
                                             !.spawn = PopenCall(shellcmd, args.cls)]
                 /\ trace' = Append(trace, "spawn")
            ELSE /\ pc' = "raised" /\ raised' = "OSError"
                 /\ UNCHANGED <<process, child, trace>>
    /\ UNCHANGED <<sideVars, args, cwd, cwd_before_startpath, shellcmd, popen_named_args, filehandle,
                   process_exitcode, process_output, ec, qaVars, now>>

\* the input is more than the pipe to the child takes and the child does not
\* read it
InputStuck == /\ args.input # Nothing /\ process.stdin = "open"
              /\ Len(Get(args.input)) > PipeCap
              /\ ~child.reads

InitInput ==
    /\ pc = "init_input"
    \* stdin.write(inp) and stdin.close() block on a full pipe until the child
    \* reads, or until its end of the pipe is closed
    /\ IF args.input # Nothing THEN InputStuck => child.state # "running" ELSE TRUE
    /\ \E written \in BOOLEAN :
         LET \* self._process.stdin.write(inp) raises: no stdin handle, or the write fails
             write_fails == args.input # Nothing /\ (process.stdin = None \/ ~written)
             writes == args.input # Nothing /\ ~write_fails
         IN  /\ (args.input = Nothing \/ process.stdin = None) => written
             /\ IF args.input # Nothing THEN InputStuck => ~written ELSE TRUE
             /\ IF write_fails /\ RaiseExceptionRaises(args)
                THEN /\ pc' = "raised" /\ raised' = "Exception"
                     /\ UNCHANGED <<process, child, trace>>
                ELSE IF INIT_INPUT_CLOSE(args.cls) /\ process.stdin = None
                THEN \* None.close()
                     /\ pc' = "raised" /\ raised' = "AttributeError"
                     /\ UNCHANGED <<process, child, trace>>
                ELSE /\ pc' = "wait" /\ raised' = raised
                     /\ child' = IF writes THEN [child EXCEPT !.got = Append(@, Get(args.input))]
                                 ELSE child
                     /\ process' = IF INIT_INPUT_CLOSE(args.cls)
                                   THEN [process EXCEPT !.stdin = "closed"] ELSE process
                     /\ trace' = trace \o (IF writes THEN <<"write_input">> ELSE <<>>)
                                       \o (IF INIT_INPUT_CLOSE(args.cls)
                                           THEN <<"close_stdin">> ELSE <<>>)
    /\ UNCHANGED <<sideVars, args, cwd, cwd_before_startpath, shellcmd, popen_named_args, filehandle,
                   process_exitcode, process_output, ec, qaVars, now>>

(***************************************************************************)
(* The hooks: _loop_process_output of RunTimeout and of RunQA.             *)
(* A hook returns normally ("ok"), raises RunLoopException after           *)
(* stop_tasks ("stop", with the code and output it carries), or raises     *)
(* another exception.                                                      *)
(***************************************************************************)
\* a hook that already stops the run when the elapsed time equals the timeout
TimeoutExpired_AtLimit(time_passed, timeout) ==
    timeout # Nothing /\ time_passed >= Get(timeout)

\* RunTimeout._loop_process_output
TimeoutExpired(time_passed, timeout) == timeout # Nothing /\ time_passed > Get(timeout)

\* RunQA._loop_process_output: the questions in the order they are tried
AllQA(q, qreg) == q \o qreg

\* sorted() compares the items of a table: compiled patterns have no order,
\* so a table of two or more raises TypeError
SortRaises(q, qreg) == Len(q) > 1 \/ Len(qreg) > 1

\* the first question that matches the output after hit_position, 0 for none
FirstMatch(all_qa, tail) ==
    LET found == { i \in 1..Len(all_qa) : Search(all_qa[i].q, tail) # 0 }
    IN  IF found = {} THEN 0 ELSE CHOOSE i \in found : \A j \in found : i <= j

\* a hit that leaves the answers as they are
Rotate_Keep(answers) == answers

\* answers after a hit: with more than one the head goes to the tail
Rotate(answers) == IF Len(answers) > 1 THEN Append(Tail(answers), Head(answers)) ELSE answers

\* some no_qa pattern matches the output
NoQAMatches(no_qa, out) == \E i \in 1..Len(no_qa) : Search(no_qa[i], out) # 0

\* a limit that is exceeded one miss early
MissLimitExceeded_AtLimit(miss_count) == miss_count >= LOOP_MAX_MISS_COUNT

\* the miss limit is exceeded
MissLimitExceeded(miss_count) == miss_count > LOOP_MAX_MISS_COUNT

\* a hook that never counts a miss
MissCountAfter_Never(out, prev_len, miss_count, no_qa) == miss_count

\* a hook whose miss counter starts again when the output has grown
MissCountAfter_ResetOnProgress(out, prev_len, miss_count, no_qa) ==
    IF Len(out) > prev_len THEN 0
    ELSE IF NoQAMatches(no_qa, out) THEN miss_count ELSE miss_count + 1

\* a hook that never notes the length of the output
PrevLenAfter_Kept(out, prev_len) == prev_len

\* the counters after an invocation without a hit
MissCountAfter(out, prev_len, miss_count, no_qa) ==
    IF Len(out) > prev_len THEN miss_count
    ELSE IF NoQAMatches(no_qa, out) THEN miss_count ELSE miss_count + 1

PrevLenAfter(out, prev_len) == IF Len(out) > prev_len THEN Len(out) ELSE prev_len

\* a hit position that goes back to the start of the output
HitPositionAfter_Start(out) == 0

\* the position of the next possible match after a hit
HitPositionAfter(out) == Len(out)

QAHook(output, out) ==
    LET all_qa == AllQA(qa, qa_reg)
        tail == Drop(out, hit_position)
        idx == FirstMatch(all_qa, tail)
        hit == output # <<>> /\ idx # 0
        keep == [outcome |-> "ok", qa |-> qa, qa_reg |-> qa_reg, hit_position |-> hit_position,
                 miss |-> loop_miss_count, prev |-> loop_previous_ouput_length,
                 sent |-> Nothing, used |-> <<>>, idx |-> 0, code |-> 0, output |-> <<>>]
    IN  IF SortRaises(qa, qa_reg) THEN [keep EXCEPT !.outcome = "TypeError"]
        ELSE IF hit
        THEN LET question == all_qa[idx].q
                 answers == all_qa[idx].answers
                 group == Groupdict(question, tail)
             IN  IF answers = BadAnswers THEN [keep EXCEPT !.outcome = "TypeError"]
                 ELSE IF answers = <<>> THEN [keep EXCEPT !.outcome = "IndexError"]
                 ELSE IF RenderFails(answers[1], group) THEN [keep EXCEPT !.outcome = "KeyError"]
                 ELSE [keep EXCEPT
                         !.qa = IF idx <= Len(qa)
                                THEN [qa EXCEPT ![idx].answers = Rotate(answers)] ELSE qa,
                         !.qa_reg = IF idx > Len(qa)
                                    THEN [qa_reg EXCEPT ![idx - Len(qa)].answers = Rotate(answers)]
                                    ELSE qa_reg,
                         !.sent = Some(Render(answers[1], group)),
                         !.used = answers[1],
                         !.idx = idx,
                         !.hit_position = HitPositionAfter(out),
                         !.miss = 0]
        ELSE LET miss == MissCountAfter(out, loop_previous_ouput_length, loop_miss_count,
                                        args.no_qa)
                 after == [keep EXCEPT !.miss = miss,
                                       !.prev = PrevLenAfter(out, loop_previous_ouput_length)]
             IN  IF MissLimitExceeded(miss)
                 THEN [after EXCEPT !.outcome = "stop", !.code = RUNRUN_QA_MAX_MISS_EXITCODE,
                                    !.output = out]
                 ELSE after

\* the hook of the class: RunLoopLog and RunLoopStdout pass the chunk on to
\* the logger or to sys.stdout and call the next hook of the MRO
Hook(output, out) ==
    LET keep == [outcome |-> "ok", qa |-> qa, qa_reg |-> qa_reg, hit_position |-> hit_position,
                 miss |-> loop_miss_count, prev |-> loop_previous_ouput_length,
                 sent |-> Nothing, used |-> <<>>, idx |-> 0, code |-> 0, output |-> <<>>]
    IN  CASE IsTimeoutClass(args.cls) ->
               IF TimeoutExpired(now, args.timeout)
               THEN [keep EXCEPT !.outcome = "stop", !.code = RUNRUN_TIMEOUT_EXITCODE,
                                 !.output = RUNRUN_TIMEOUT_OUTPUT]
               ELSE keep
          [] IsQAClass(args.cls) -> QAHook(output, out)
          [] OTHER -> keep

(***************************************************************************)
(* The child process and the clock.                                        *)
(***************************************************************************)
Dead(c) == c.state \in {"exited", "signalled"}

\* run() has been entered and has neither returned nor raised
Running == pc \notin {"call", "instance", "returned", "raised"}

\* the character a streaming child writes over and over
StreamChar == "x"

\* os.kill(pid, SIGKILL): a running child ends with returncode -SIGKILL
Killed(c) == IF c.state = "running"
             THEN [c EXCEPT !.state = "signalled", !.status = Some(0 - SIGKILL)]
             ELSE c

\* the stream the child writes its next character to
NextToStderr(c) == c.mode # "stream" /\ (Len(c.written) + 1) \in c.err

\* the child writes the next character of its output to its stdout or its
\* stderr; a write to a full pipe blocks
ChildWrite ==
    /\ Running
    /\ child.state = "running"
    /\ IF child.mode = "stream" THEN TRUE ELSE child.todo # <<>>
    /\ LET c == IF child.mode = "stream" THEN StreamChar ELSE Head(child.todo)
           sink == IF NextToStderr(child) THEN child.errsink ELSE child.sink
       IN  /\ sink = "pipe" => Len(child.pipe) < PipeCap
           /\ child' = [child EXCEPT
                 !.todo = IF child.mode = "stream" THEN @ ELSE Tail(@),
                 !.written = IF child.mode = "stream" THEN @ ELSE Append(@, c),
                 !.to_stdout = IF child.mode = "stream" \/ NextToStderr(child)
                               THEN @ ELSE Append(@, c),
                 !.pipe = IF sink = "pipe" THEN Append(@, c) ELSE @,
                 !.file = IF sink = "file" THEN Some(Append(Get(@), c)) ELSE @]
    /\ UNCHANGED <<sideVars, args, engineVars, qaVars, now, trace>>

\* the child has written all its output and exits with its code
ChildExit ==
    /\ Running
    /\ child.state = "running"
    /\ child.mode = "exit" /\ child.todo = <<>>
    /\ child' = [child EXCEPT !.state = "exited", !.status = Some(child.code)]
    /\ UNCHANGED <<sideVars, args, engineVars, qaVars, now, trace>>

\* the child is terminated by a signal that is not the engine's
ChildSignalled ==
    /\ Running
    /\ child.state = "running"
    /\ child' = Killed(child)
    /\ UNCHANGED <<sideVars, args, engineVars, qaVars, now, trace>>

\* time passes (only RunTimeout reads the clock)
Tick ==
    /\ Running
    /\ IsTimeoutClass(args.cls)
    /\ now < MaxTime
    /\ now' = now + 1
    /\ UNCHANGED <<sideVars, args, engineVars, qaVars, child, trace>>

(***************************************************************************)
(* _wait_for_process                                                       *)
(***************************************************************************)
\* Popen.poll(): None while the child runs, its returncode afterwards
Poll == IF Dead(child) THEN child.status ELSE Nothing

\* the engine reads the child's output through the pipe (RunFile and RunPty
\* replace _read_process by a function that returns '')
ReadsPipe == args.cls.target = "pipe" /\ process.stdout = "open"

\* Run._wait_for_process: wait(), then one read of everything
\* _read_process of the class: RunAsync catches every exception of the read
\* and returns '', Run lets it through
SwallowsReadError_Never(cls) == FALSE

SwallowsReadError(cls) == cls.async

WaitForProcess ==
    /\ pc = "wait"
    /\ ~args.cls.loop
    /\ Dead(child)
    /\ \E readable \in BOOLEAN :
         /\ ~ReadsPipe => readable
         /\ IF ~readable /\ ~SwallowsReadError(args.cls) /\ RaiseExceptionRaises(args)
            THEN /\ pc' = "raised" /\ raised' = "Exception"
                 /\ UNCHANGED <<process_output, child>>
            ELSE /\ pc' = "cleanup" /\ raised' = raised
                 /\ process_output' =
                       IF ~readable THEN (IF SwallowsReadError(args.cls) THEN Some(<<>>) ELSE process_output)
                       ELSE IF ReadsPipe THEN Some(ensure_ascii_string(child.pipe))
                       ELSE Some(<<>>)
                 /\ child' = IF readable /\ ReadsPipe THEN [child EXCEPT !.pipe = <<>>] ELSE child
    /\ process_exitcode' = child.status
    /\ UNCHANGED <<sideVars, args, cwd, cwd_before_startpath, shellcmd, popen_named_args, filehandle,
                   process, ec, qaVars, now, trace>>

\* RunLoop._wait_for_process up to the first poll
LoopInit ==
    /\ pc = "wait"
    /\ args.cls.loop
    /\ pc' = "loop"
    /\ process_output' = Some(<<>>)
    /\ loop_miss_count' = 0
    /\ loop_previous_ouput_length' = 0
    /\ missed' = 0
    /\ ec' = Poll
    /\ UNCHANGED <<sideVars, args, raised, cwd, cwd_before_startpath, shellcmd, popen_named_args,
                   filehandle, process, process_exitcode, qa, qa_reg, hit_position, hits,
                   caller, child, now, trace>>

\* a stop_tasks that only reaps
StopTasksTrace_NoKill == <<"waitpid">>

\* Run.stop_tasks: _killtasks([pid]) sends SIGKILL, then os.waitpid(-1, WNOHANG)
StopTasksTrace == <<"kill", "waitpid">>

\* a buffer that holds the last chunk only
Appended_Replaced(buffer, output) == output

\* self._process_output += output
Appended(buffer, output) == buffer \o output

\* what the engine does with the result h of the hook on the buffer out: the
\* counters and tables the hook leaves, the answer it wrote, and a
\* RunLoopException or an error it raised
AfterHook(h, out, pipe_left, final) ==
    LET answered == [child EXCEPT !.pipe = pipe_left,
                                  !.got = IF h.sent = Nothing THEN @ ELSE Append(@, Get(h.sent))]
    IN  IF Len(out) > MaxOut
        THEN \* self._process_output += output: the interpreter cannot allocate
             \* the longer string
             /\ pc' = "raised" /\ raised' = "MemoryError"
             /\ child' = [child EXCEPT !.pipe = pipe_left]
             /\ UNCHANGED <<process_output, process_exitcode, qaVars, trace>>
        ELSE /\ qa' = h.qa
             /\ qa_reg' = h.qa_reg
             /\ hit_position' = h.hit_position
             /\ loop_miss_count' = h.miss
             /\ loop_previous_ouput_length' = h.prev
             /\ missed' = IF IsQAClass(args.cls) /\ h.outcome \in {"ok", "stop"}
                          THEN MissedAfter(missed, h.sent # Nothing,
                                           Len(out) > loop_previous_ouput_length,
                                           NoQAMatches(args.no_qa, out))
                          ELSE missed
             /\ caller' = [qa |-> CallerSees(caller.qa, qa'),
                           qa_reg |-> CallerSees(caller.qa_reg, qa_reg')]
             /\ hits' = IF h.sent = Nothing THEN hits
                        ELSE Append(hits, [idx |-> h.idx, answer |-> h.used,
                                           written |-> Get(h.sent)])
             /\ CASE h.outcome = "ok" ->
                       /\ pc' = IF final THEN "cleanup" ELSE "loop_poll"
                       /\ raised' = raised
                       /\ process_output' = Some(out)
                       /\ process_exitcode' = IF final THEN ec ELSE process_exitcode
                       /\ child' = answered
                       /\ trace' = IF h.sent = Nothing THEN trace ELSE Append(trace, "send_all")
                  [] h.outcome = "stop" ->
                       /\ pc' = "cleanup"
                       /\ raised' = raised
                       /\ process_output' = Some(ensure_ascii_string(h.output))
                       /\ process_exitcode' = Some(h.code)
                       /\ child' = Killed(answered)
                       /\ trace' = trace \o StopTasksTrace \o <<"RunLoopException">>
                  [] OTHER ->
                       /\ pc' = "raised"
                       /\ raised' = h.outcome
                       /\ process_output' = Some(out)
                       /\ process_exitcode' = IF final THEN ec ELSE process_exitcode
                       /\ child' = answered
                       /\ trace' = trace

\* the part of an iteration after the read: the chunk is appended, the hook
\* is called, a RunLoopException is caught
AppendAndHook(output, pipe_left, final) ==
    AfterHook(Hook(output, Appended(Get(process_output), output)),
              Appended(Get(process_output), output), pipe_left, final)

\* _read_process() returns: recv_some does not block, stdout.read(readsize)
\* blocks until readsize bytes are there or the child's end has closed
ReadReturns == IF args.cls.async THEN TRUE
               ELSE IF Dead(child) THEN TRUE ELSE Len(child.pipe) >= ReadSize

\* the loop goes on: the child has not exited as far as ec tells
LoopContinues(code) == IF code = Nothing THEN TRUE ELSE Get(code) < 0

\* one iteration of the while loop up to the sleep before the next poll
LoopBody ==
    /\ pc = "loop"
    /\ LoopContinues(ec)
    /\ ReadReturns
    /\ \E readable \in BOOLEAN :
         LET n == Min(ReadSize, Len(child.pipe))
         IN  /\ child.pipe = <<>> => readable
             /\ IF readable
                THEN AppendAndHook(ensure_ascii_string(Take(child.pipe, n)),
                                   Drop(child.pipe, n), FALSE)
                ELSE IF SwallowsReadError(args.cls)
                THEN AppendAndHook(<<>>, child.pipe, FALSE)
                ELSE /\ pc' = "raised" /\ raised' = "IOError"
                     /\ UNCHANGED <<process_output, process_exitcode, qaVars, child, trace>>
    /\ UNCHANGED <<sideVars, args, cwd, cwd_before_startpath, shellcmd, popen_named_args, filehandle,
                   process, ec, now>>

\* the sleep and the poll that end an iteration
LoopPoll ==
    /\ pc = "loop_poll"
    /\ pc' = "loop"
    /\ ec' = Poll
    /\ UNCHANGED <<sideVars, args, raised, cwd, cwd_before_startpath, shellcmd, popen_named_args,
                   filehandle, process, process_exitcode, process_output, qaVars, child,
                   now, trace>>

\* after the loop: the rest is read, the exit code is set, the hook is called
LoopFinal ==
    /\ pc = "loop"
    /\ ~LoopContinues(ec)
    /\ \E readable \in BOOLEAN :
         /\ child.pipe = <<>> => readable
         /\ IF readable
            THEN AppendAndHook(ensure_ascii_string(child.pipe), <<>>, TRUE)
            ELSE IF SwallowsReadError(args.cls)
            THEN AppendAndHook(<<>>, child.pipe, TRUE)
            ELSE /\ pc' = "raised" /\ raised' = "IOError"
                 /\ UNCHANGED <<process_output, process_exitcode, qaVars, child, trace>>
    /\ UNCHANGED <<sideVars, args, cwd, cwd_before_startpath, shellcmd, popen_named_args, filehandle,
                   process, ec, now>>

(***************************************************************************)
(* Run._run_post                                                           *)
(***************************************************************************)
\* the step of _run_post that follows a step: _cleanup_process, _post_exitcode
\* (and _post_output), _return_to_previous_start_in_path, _run_return
RunPostAfter_RestoreFirst(step) ==
    CASE step = "cleanup" -> "return_path"
      [] step = "return_path" -> "post_exitcode"
      [] OTHER -> "returned"

RunPostAfter(step) ==
    CASE step = "cleanup" -> "post_exitcode"
      [] step = "post_exitcode" -> "return_path"
      [] OTHER -> "returned"

CleanupProcess ==
    /\ pc = "cleanup"
    /\ IF args.cls.target = "file"
       THEN \* RunFile._cleanup_process: self.filehandle.close()
            IF filehandle = None
            THEN /\ pc' = "raised" /\ raised' = "AttributeError"
                 /\ UNCHANGED <<filehandle, process, trace>>
            ELSE /\ pc' = RunPostAfter("cleanup") /\ raised' = raised
                 /\ filehandle' = "closed"
                 /\ trace' = Append(trace, "close_file")
                 /\ UNCHANGED process
       ELSE \E closes \in BOOLEAN :
            \* a close() that raises OSError leaves the handle closed all the same
            /\ process.stdout # "open" => closes
            /\ process' = IF process.stdout = "open"
                          THEN [process EXCEPT !.stdout = "closed"] ELSE process
            /\ trace' = IF process.stdout = "open"
                        THEN Append(trace, "close_stdout") ELSE trace
            /\ IF ~closes /\ RaiseExceptionRaises(args)
               THEN pc' = "raised" /\ raised' = "Exception"
               ELSE pc' = RunPostAfter("cleanup") /\ raised' = raised
            /\ UNCHANGED filehandle
    /\ UNCHANGED <<sideVars, args, cwd, cwd_before_startpath, shellcmd, popen_named_args,
                   process_exitcode, process_output, ec, qaVars, child, now>>

PostExitcode ==
    /\ pc = "post_exitcode"
    /\ pc' = RunPostAfter("post_exitcode")
    /\ trace' = Append(trace, "post_exitcode")
    /\ UNCHANGED <<sideVars, args, raised, cwd, cwd_before_startpath, shellcmd, popen_named_args,
                   filehandle, process, process_exitcode, process_output, ec, qaVars,
                   child, now>>

\* _return_to_previous_start_in_path, then _run_return
ReturnToPreviousPath ==
    /\ pc = "return_path"
    /\ pc' = RunPostAfter("return_path")
    /\ IF args.startpath # None /\ cwd_before_startpath # None
       THEN cwd' = cwd_before_startpath /\ trace' = Append(trace, "restore_path")
       ELSE UNCHANGED <<cwd, trace>>
    /\ UNCHANGED <<sideVars, args, raised, cwd_before_startpath, shellcmd, popen_named_args,
                   filehandle, process, process_exitcode, process_output, ec, qaVars,
                   child, now>>

\* what run() returns
ReturnedCode == process_exitcode

ReturnedOutput == process_output

(***************************************************************************)
(* The specification of a run of any class.                                *)
(***************************************************************************)
Named(names) == { c \in RunClasses : c.name \in names }

DefaultCmd == CmdList(<<Str("e", "c"), <<"h">>>>)

\* every class on a valid command, with every value of the keyword argument
\* the class reads
ClassArgs ==
    ArgsOf({c \in RunClasses : c.hook = "none" /\ c.target # "file"},
           {DefaultCmd}, {Nothing}, {"None"}, {FALSE}, {Nothing}, {NoTable}, {None}, Plans)
    \cup ArgsOf({c \in RunClasses : c.target = "file"},
                {DefaultCmd}, {Nothing}, {"None"}, BOOLEAN, {Nothing}, {NoTable}, Filenames, Plans)
    \cup ArgsOf({c \in RunClasses : IsTimeoutClass(c)},
                {DefaultCmd}, {Nothing}, {"None"}, {FALSE}, Timeouts, {NoTable}, {None}, Plans)
    \cup ArgsOf({c \in RunClasses : IsQAClass(c)},
                {DefaultCmd}, {Nothing}, {"None"}, {FALSE}, {Nothing}, {TableCycle}, {None},
                ShortPlans)

\* the classes that differ in what _run does, on every command, input,
\* startpath and logger
ConfigArgs ==
    ArgsOf(Named({"Run", "RunNoShell", "RunLoop", "RunAsync", "RunPty"}),
           Cmds, Inputs, StartPaths, BOOLEAN, {Nothing}, {NoTable}, {None}, ShortPlans)
    \cup ArgsOf(Named({"RunFile"}),
                Cmds, Inputs, StartPaths, BOOLEAN, {Nothing}, {NoTable}, {"new"}, ShortPlans)
    \cup ArgsOf(Named({"RunTimeout"}),
                Cmds, Inputs, StartPaths, BOOLEAN, {Some(0)}, {NoTable}, {None}, ShortPlans)
    \cup ArgsOf(Named({"RunQA"}),
                Cmds, Inputs, StartPaths, BOOLEAN, {Nothing}, {TableCycle}, {None},
                {Plan(<<>>, 0, "exit")})
    \cup ArgsOf(Named({"RunQA"}),
                {DefaultCmd}, {Nothing}, {"None"}, BOOLEAN, {Nothing},
                {TableBad, [TableBad EXCEPT !.add_newline = FALSE]}, {None},
                {Plan(<<"q">>, 0, "exit")})

\* a call of every convenient name, with the keyword argument its class reads
EntryArgs ==
    UNION { { [a EXCEPT !.entry = e.name] :
                a \in ArgsOf(Named({e.cls}), {DefaultCmd}, {Nothing}, {"None"}, {FALSE},
                             IF e.cls \in {"RunTimeout", "RunNoShellTimeout"}
                             THEN {Some(0), Some(1)} ELSE {Nothing},
                             IF e.cls \in {"RunQA", "RunNoShellQA", "RunQALog", "RunNoShellQALog",
                                           "RunQAStdout", "RunNoShellQAStdout"}
                             THEN {TableCycle} ELSE {NoTable},
                             IF e.cls \in {"RunFile", "RunNoShellFile"} THEN {"new"} ELSE {None},
                             ShortPlans) } : e \in EntryPoints }

AllArgs == ClassArgs \cup ConfigArgs \cup EntryArgs

Init == InitWith(AllArgs)

Next ==
    \/ Construct
    \/ StartInPath
    \/ MakeShellCommand
    \/ MakePopenNamedArgs
    \/ InitProcess
    \/ InitInput
    \/ WaitForProcess
    \/ LoopInit
    \/ LoopBody
    \/ LoopPoll
    \/ LoopFinal
    \/ CleanupProcess
    \/ PostExitcode
    \/ ReturnToPreviousPath
    \/ ChildWrite
    \/ ChildExit
    \/ ChildSignalled
    \/ Tick

Spec == Init /\ [][Next]_vars

(***************************************************************************)
(* The specification of a question/answer run.                             *)
(***************************************************************************)
QATables == {TableCycle, TableOne, [TableOne EXCEPT !.add_newline = FALSE], TableGroup,
             TableBoth, TableTwo, TableNoQA, TableNever, TableEmpty}

QAArgs ==
    ArgsOf(Named({"RunQA"}),
           {DefaultCmd}, {Nothing}, {"None"}, {FALSE}, {Nothing}, QATables, {None}, QAPlans)
    \cup ArgsOf({c \in RunClasses : IsQAClass(c)},
                {DefaultCmd}, {Nothing}, {"None"}, {FALSE}, {Nothing}, {TableCycle}, {None},
                {Plan(<<"q", "q">>, 0, "exit")})

InitQA == InitWith(QAArgs)

\* the steps of the engine in a loop class
EngineQA ==
    \/ Construct
    \/ StartInPath
    \/ MakeShellCommand
    \/ MakePopenNamedArgs
    \/ InitProcess
    \/ InitInput
    \/ LoopInit
    \/ LoopBody
    \/ LoopPoll
    \/ LoopFinal
    \/ CleanupProcess
    \/ PostExitcode
    \/ ReturnToPreviousPath

NextQA ==
    \/ EngineQA
    \/ ChildWrite
    \/ ChildExit
    \/ ChildSignalled

SpecQA == InitQA /\ [][NextQA]_vars

\* the engine runs on as long as it can take a step, and so does a child
\* that has output to write
SpecQAFair == SpecQA /\ WF_vars(EngineQA) /\ WF_vars(ChildWrite) /\ WF_vars(ChildExit)

(***************************************************************************)
(* Properties.                                                             *)
(***************************************************************************)
\* the engine leaves the top of the loop: it has read and called the hook,
\* unless the buffer could not take the chunk
HookInvoked == pc = "loop" /\ pc' # "loop" /\ raised' # "MemoryError"

\* the post phase goes on
PostStep == pc \in {"cleanup", "post_exitcode", "return_path"} /\ pc' # pc

\* the position of the first e in the trace, 0 when there is none
Pos(e) == IF \E i \in 1..Len(trace) : trace[i] = e
          THEN CHOOSE i \in 1..Len(trace) : trace[i] = e /\ \A j \in 1..(i - 1) : trace[j] # e
          ELSE 0

\* C1: in a timeout class a hook invocation with elapsed time strictly above
\* the timeout ends the loop with the pair (123, '') whatever was captured,
\* the post phase keeps that pair up to the return, and a hook invocation
\* with elapsed <= timeout does not end the run: the loop goes on, or ends
\* because the child has exited, without a kill and without the sentinel.
C1_TimeoutSentinel ==
    [][ /\ (IsTimeoutClass(args.cls) /\ HookInvoked) =>
              IF now > Get(args.timeout)
              THEN /\ pc' = "cleanup"
                   /\ process_exitcode' = Some(RUNRUN_TIMEOUT_EXITCODE)
                   /\ process_output' = Some(<<>>)
              ELSE /\ pc' = IF LoopContinues(ec) THEN "loop_poll" ELSE "cleanup"
                   /\ process_exitcode' # Some(RUNRUN_TIMEOUT_EXITCODE)
                   /\ child'.state = child.state
                   /\ trace' = trace
        /\ (IsTimeoutClass(args.cls) /\ PostStep) =>
              UNCHANGED <<process_exitcode, process_output>>
      ]_vars

\* a timed-out run has returned (123, '') although output had been read
C1_Witness ==
    /\ IsTimeoutClass(args.cls)
    /\ pc = "returned"
    /\ now > Get(args.timeout)
    /\ ReturnedCode = Some(RUNRUN_TIMEOUT_EXITCODE)
    /\ ReturnedOutput = Some(<<>>)
    /\ child.written # <<>>
    /\ child.pipe = <<>>

\* the answers of question idx as _parse_qa left them at construction
OrigAnswers(idx) ==
    AllQA(ParseTable(args.qa, TRUE, args.add_newline, <<>>),
          ParseTable(args.qa_reg, FALSE, args.add_newline, <<>>))[idx].answers

\* the number of hits on the question of hit j before hit j
HitsBefore(j) == Cardinality({ i \in 1..(j - 1) : hits[i].idx = hits[j].idx })

HasDirective(answer) == \E i \in 1..Len(answer) : answer[i] = Directive

\* C2: the k-th hit on a question with the answers a_0 .. a_(n-1) uses
\* a_(k mod n), and what the child has received on its stdin are the
\* answers used, in the order of the hits (an answer without a directive
\* as it is).
C2_AnswersCycle ==
    IsQAClass(args.cls) =>
        /\ \A j \in 1..Len(hits) :
              LET orig == OrigAnswers(hits[j].idx)
                  n == Len(orig)
                  k == HitsBefore(j)
              IN  /\ n >= 1
                  /\ hits[j].answer = orig[(k % n) + 1]
                  /\ ~HasDirective(hits[j].answer) => hits[j].written = hits[j].answer
        /\ Len(child.got) >= Len(hits)
        /\ Drop(child.got, Len(child.got) - Len(hits))
              = [j \in 1..Len(hits) |-> hits[j].written]

\* three hits on the one question of qa={"q": ["a", "b"]}: a, b, a again
C2_Witness ==
    /\ IsQAClass(args.cls)
    /\ Len(hits) >= 3
    /\ Len(OrigAnswers(1)) = 2
    /\ \A j \in 1..3 : hits[j].idx = 1
    /\ hits[1].answer # hits[2].answer
    /\ hits[3].answer = hits[1].answer
    /\ Len(child.got) = Len(hits)

\* no question and no no_qa pattern matches text
NoMatchOn(text) ==
    /\ FirstMatch(AllQA(qa, qa_reg), text) = 0
    /\ ~NoQAMatches(args.no_qa, text)

\* a QA loop on a running child that streams, where nothing matches the
\* stream however long it gets
StreamsNoMatch ==
    /\ IsQAClass(args.cls)
    /\ pc \in {"loop", "loop_poll"}
    /\ child.mode = "stream" /\ child.state = "running"
    /\ ~SortRaises(qa, qa_reg)
    /\ \A n \in 0..(MaxOut + ReadSize) : NoMatchOn([i \in 1..n |-> StreamChar])

SilentForEver ==
    /\ IsQAClass(args.cls)
    /\ pc \in {"loop", "loop_poll"}
    /\ child.mode = "hang" /\ child.todo = <<>> /\ child.pipe = <<>>
    /\ ~SortRaises(qa, qa_reg)
    /\ ~NoQAMatches(args.no_qa, Get(process_output))

\* the run has ended with the pair (124, all the child has written) set
BailedOut ==
    /\ pc \in {"returned", "raised"}
    /\ loop_miss_count > LOOP_MAX_MISS_COUNT
    /\ process_exitcode = Some(RUNRUN_QA_MAX_MISS_EXITCODE)
    /\ process_output = Some(ensure_ascii_string(child.written))

C4_MissLimit ==
    [][ /\ (IsQAClass(args.cls) /\ HookInvoked /\ raised' = None) =>
              LET chunk == Take(child.pipe, Len(child.pipe) - Len(child'.pipe))
                  out == Get(process_output) \o ensure_ascii_string(chunk)
                  bailed == /\ pc' = "cleanup"
                            /\ process_exitcode' = Some(RUNRUN_QA_MAX_MISS_EXITCODE)
                            /\ Pos("kill")' # 0
              IN  /\ loop_miss_count' \in 0..(LOOP_MAX_MISS_COUNT + 1)
                  /\ bailed <=> loop_miss_count' > LOOP_MAX_MISS_COUNT
                  /\ bailed => process_output' = Some(out)
                  /\ ~bailed => /\ pc' = IF LoopContinues(ec) THEN "loop_poll" ELSE "cleanup"
                                /\ process_output' = Some(out)
                                /\ trace' \in {trace, Append(trace, "send_all")}
        /\ (IsQAClass(args.cls) /\ PostStep) =>
              UNCHANGED <<process_exitcode, process_output>>
      ]_vars

\* a QA run has returned 124 and a buffer that is not empty after 21 misses
C4_Witness ==
    /\ IsQAClass(args.cls)
    /\ pc = "returned"
    /\ loop_miss_count = LOOP_MAX_MISS_COUNT + 1
    /\ ReturnedCode = Some(RUNRUN_QA_MAX_MISS_EXITCODE)
    /\ ReturnedOutput # Some(<<>>)
    /\ ReturnedOutput = Some(child.written)

\* C5 as stated: a run given a startpath has returned or raised, and the
\* working directory is the one from before the run.
C5_Original ==
    (args.startpath # None /\ pc \in {"returned", "raised"}) => cwd = "orig"

C7_Original ==
    pc = "returned" =>
        IF ReturnedCode = Nothing THEN FALSE ELSE Get(ReturnedCode) >= 0

\* C8 as stated: run() has returned for a child spawned through pipes,
\* and neither its stdout nor its stdin is still open.
C8_Original ==
    (pc = "returned" /\ process.spawned /\ popen_named_args.stdin = "PIPE") =>
        (process.stdout # "open" /\ process.stdin # "open")

\* C9 as stated: a fatal error has left a run with a logger after the
\* command was composed (at the spawn, the write to stdin, the wait or read, or later),
\* and no handle of the child or of the redirect file is open and the
\* working directory is restored.
C9_Original ==
    (pc = "raised" /\ ~args.disable_log /\ Pos("compose") # 0) =>
        /\ process.stdin # "open"
        /\ process.stdout # "open"
        /\ filehandle # "open"
        /\ cwd = "orig"

\* the configuration errors of a call
ConfigError(a) ==
    \/ CmdInvalid(a.cmd)
    \/ StartPathInvalid(a.startpath) /\ a.startpath # "noperm"
    \/ IsQAClass(a.cls) /\ ParseQARaises(a)
    \/ a.cls.target = "file" /\ a.filename = "dir"

\* C10 as stated: a call with a configuration error never spawns a child.
C10_Original == ConfigError(args) => ~process.spawned

\* the step of the pre phase a run with a logger cannot get past: the step
\* after the first check of the arguments that calls raiseException
\* ("none": no check fails)
LoggerStopsBefore(a) ==
    IF StartPathInvalid(a.startpath) THEN "make_shell_command"
    ELSE IF CmdInvalid(a.cmd) THEN "make_popen_named_args"
    ELSE IF a.cls.target = "file" /\ a.filename # None /\ FileTargetInvalid(a.filename)
    THEN "init_process"
    ELSE "none"

\* C11 as stated: a run with disable_log raises where the same run with a
\* logger raises, so it never takes the step after a check of the arguments
\* that makes the run with a logger raise.
C11_Original == args.disable_log => pc # LoggerStopsBefore(args)

\* the same run with a logger does stop there
LoggerRunStops == ~args.disable_log => pc # LoggerStopsBefore(args)

\* a run of a class whose _wait_for_process is wait() followed by one read
\* of the pipe waits for a child that writes a literal and exits 0
BlockingWait ==
    /\ ~args.cls.loop
    /\ args.cls.target = "pipe"
    /\ pc = "wait"
    /\ child.state = "running"
    /\ child.mode = "exit" /\ child.code = 0

\* C12 as stated, for the termination it claims: while the blocking run
\* waits for the child, the child can always go on, with its next write or
\* with its exit, whatever the length of its literal.
C12_Original == BlockingWait => (child.todo = <<>> \/ Len(child.pipe) < PipeCap)

\* C13 as stated: a hook invocation of a QA run writes at most one answer,
\* and when it has read something and some question matches the output
\* after hit_position it writes the answer of the first one that matches,
\* exact questions before regex questions, however many questions the
\* tables hold.
C13_Original ==
    [][ (IsQAClass(args.cls) /\ HookInvoked) =>
          LET chunk == Take(child.pipe, Len(child.pipe) - Len(child'.pipe))
              out == Get(process_output) \o ensure_ascii_string(chunk)
              idx == FirstMatch(AllQA(qa, qa_reg), Drop(out, hit_position))
          IN  /\ Len(hits') <= Len(hits) + 1
              /\ (chunk # <<>> /\ idx # 0) =>
                    /\ Len(hits') = Len(hits) + 1
                    /\ hits'[Len(hits')].idx = idx
                    /\ child'.got = Append(child.got, hits'[Len(hits')].written)
      ]_vars

(***************************************************************************)
(* The calls on a CmdList object.                                          *)
(***************************************************************************)
MaxCmdLen == 2

ItemTexts == {<<"a">>, <<"a", " ", "b">>, <<Directive>>, <<SpacedDirective>>}

\* what a caller may pass as one item: a str, or something that is none
Items == { StrObj(t) : t \in ItemTexts } \cup {IntObj}

\* the sequences of items a caller passes: none, one item, or a plain token
\* followed by one item
ItemSeqs == {<<>>} \cup { <<i>> : i \in Items } \cup { <<StrObj(<<"a">>), i>> : i \in Items }

\* the items argument of add: one object, or a list of objects
AddArgs == Items \cup { SeqObj("list", s) : s \in ItemSeqs }

\* tmpl_vals: None, {}, {'n': 'x y'} or {' k': 'v'}
TmplVals == {Nothing,
             Some([n |-> Nothing, k |-> Nothing]),
             Some([n |-> Some(<<"x", " ", "y">>), k |-> Nothing]),
             Some([n |-> Nothing, k |-> Some(<<"v">>)])}

runVars == <<args, engineVars, qaVars, child, now, trace>>

Called(op, items, tmpl_vals, allow_spaces, exc) ==
    [op |-> op, items |-> items, tmpl_vals |-> tmpl_vals, allow_spaces |-> allow_spaces,
     raised |-> exc, before |-> cmdlist]

\* CmdList(*args, **kwargs): an __init__ that raises leaves no new object
CallCmdList ==
    \E a \in ItemSeqs, tmpl_vals \in {Nothing}, allow_spaces \in BOOLEAN :
        LET res == add(<<>>, SeqObj("tuple", a), tmpl_vals, allow_spaces)
        IN  /\ cmdlist' = IF res.raised = None THEN res.list ELSE cmdlist
            /\ cmdcall' = Called("CmdList", SeqObj("tuple", a), tmpl_vals, allow_spaces,
                                 res.raised)
            /\ UNCHANGED <<runVars, killtasks, runs>>

CallAdd ==
    /\ Len(cmdlist) < MaxCmdLen
    /\ \E items \in AddArgs, tmpl_vals \in TmplVals, allow_spaces \in BOOLEAN :
        LET res == add(cmdlist, items, tmpl_vals, allow_spaces)
        IN  /\ cmdlist' = res.list
            /\ cmdcall' = Called("add", items, tmpl_vals, allow_spaces, res.raised)
            /\ UNCHANGED <<runVars, killtasks, runs>>

\* append(*args, **kwargs) and extend(*args, **kwargs) raise whatever they get
CallAppend ==
    \E items \in AddArgs :
        /\ cmdcall' = Called("append", items, Nothing, TRUE, "NotImplementedError")
        /\ UNCHANGED <<cmdlist, runVars, killtasks, runs>>

CallExtend ==
    \E items \in AddArgs :
        /\ cmdcall' = Called("extend", items, Nothing, TRUE, "NotImplementedError")
        /\ UNCHANGED <<cmdlist, runVars, killtasks, runs>>

InitCmdList ==
    InitWith(ArgsOf(Named({"Run"}), {DefaultCmd}, {Nothing}, {"None"}, {FALSE}, {Nothing},
                    {NoTable}, {None}, {Plan(<<>>, 0, "exit")}))

NextCmdList == CallCmdList \/ CallAdd \/ CallAppend \/ CallExtend

SpecCmdList == InitCmdList /\ [][NextCmdList]_vars

\* the items of a call, one by one
ElemsOf(items) == IF items.type \in {"list", "tuple"} THEN items.elems ELSE <<items>>

\* the text add checks for spaces: the item, formatted where the call has
\* truthy tmpl_vals
CheckedText(call, item) ==
    IF Truthy(call.tmpl_vals) /\ ~FormatFails(item.text, Get(call.tmpl_vals))
    THEN Format(item.text, Get(call.tmpl_vals)) ELSE item.text

StringOrStrings(items) ==
    \/ items.type = "str"
    \/ /\ items.type \in {"list", "tuple"}
       /\ \A i \in 1..Len(items.elems) : items.elems[i].type = "str"

\* C15 as stated: whatever was called, every element of the list is a string,
\* and an add of anything but a string or a sequence of strings ends in a
\* ValueError, with tmpl_vals or without
C15_Original ==
    /\ \A i \in 1..Len(cmdlist) : cmdlist[i].type = "str"
    /\ (cmdcall.op = "add" /\ ~StringOrStrings(cmdcall.items))
       => cmdcall.raised = "ValueError"

\* the part that holds: no call leaves anything but strings in the list
ElementsAreStrings == \A i \in 1..Len(cmdlist) : cmdlist[i].type = "str"

\* a run of a class that sends the child's stdout to a file has returned
FileRunReturned == args.cls.target = "file" /\ pc = "returned"

\* C16 as stated: after a run to a file has returned the file holds exactly
\* what the child wrote to its stdout, the returned output is empty and the
\* file handle is closed
C16_Original ==
    FileRunReturned =>
        /\ child.file = Some(child.to_stdout)
        /\ ReturnedOutput = Some(<<>>)
        /\ filehandle = "closed"

\* C16, amended: after a run to a file has returned the file holds exactly
\* what the child wrote to its stdout and to its stderr, in the order written
\* and in place of what the file held before, the returned output is empty
\* and the file handle is closed
C16_FileHoldsOutput ==
    FileRunReturned =>
        /\ child.file = Some(child.written)
        /\ ReturnedOutput = Some(<<>>)
        /\ filehandle = "closed"

\* run_file on a file that existed, with a child that wrote to both streams
C16_Witness ==
    /\ FileRunReturned
    /\ args.cls.name = "RunNoShellFile" /\ args.filename = "file"
    /\ child.to_stdout # <<>> /\ child.to_stdout # child.written
    /\ Pos("close_file") # 0

\* the call of a convenient name has come back to its caller without an
\* exception
EntryCallBack(names) ==
    /\ \E e \in names : e.name = args.entry
    /\ pc \in {"returned", "instance"}

\* the call has run the command and gives back the pair (exitcode, output)
GivesPair ==
    /\ pc = "returned"
    /\ Pos("spawn") # 0
    /\ ReturnedCode # Nothing /\ ReturnedOutput # Nothing

\* C17 as stated: a call of a public convenient name that comes back has run
\* the command and gives the pair (exitcode, output); for timeout that is
\* (123, '') where the hook has stopped the child
C17_Original ==
    EntryCallBack(PublicEntryPoints) =>
        /\ GivesPair
        /\ (args.entry = "timeout" /\ Pos("RunLoopException") # 0)
           => ReturnedCode = Some(RUNRUN_TIMEOUT_EXITCODE) /\ ReturnedOutput = Some(<<>>)

\* the names that are bound to a run classmethod do so
BoundEntryPointsRun ==
    EntryCallBack({ e \in EntryPoints : e.attr = "run" }) => GivesPair

(***************************************************************************)
(* Run._killtasks(tasks, sig, kill_pgid)                                   *)
(*                                                                         *)
(* A task is what the caller passes for a process id: an int, a string of  *)
(* digits, a string that is no number, or an object int() does not take    *)
(* (None, a list).  What os.getpgid and os.kill do is the environment's    *)
(* choice: they work, fail with ESRCH, or fail with another error.         *)
(***************************************************************************)
MaxTasks == 2

Pids == {1, 2}

Task(type, pid) == [type |-> type, pid |-> pid]

\* int(pid) of a task: ValueError for a string that is no number, TypeError
\* for what is neither a number nor a string
IntRaises(task) == CASE task.type = "badstr" -> "ValueError"
                     [] task.type = "NoneType" -> "TypeError"
                     [] OTHER -> None

Tasks == { Task(type, pid) : type \in {"int", "str"}, pid \in Pids }
         \cup {Task("badstr", 0), Task("NoneType", 0)}

TaskLists == UNION { [1..n -> Tasks] : n \in 0..MaxTasks }

OsOutcomes == {"ok", "ESRCH", "EPERM"}

\* do_something_with_pid: every Exception is caught, and logged unless it is
\* an OSError with errno ESRCH
LogOf(outcome, msg) == IF outcome = "EPERM" THEN <<msg>> ELSE <<>>

\* _killtasks is entered: no tasks is logged and ends the call, one task
\* that is no list is taken as a list of one
KillCall ==
    /\ killtasks.pc = "idle"
    /\ \E kill_pgid \in BOOLEAN :
         \/ killtasks' = [killtasks EXCEPT !.pc = "returned", !.kill_pgid = kill_pgid,
                                           !.logged = <<"no tasks">>]
         \/ \E tasks \in TaskLists \cup { <<t>> : t \in Tasks } :
              killtasks' = [killtasks EXCEPT !.pc = "convert", !.kill_pgid = kill_pgid,
                                             !.tasks = tasks]
    /\ UNCHANGED <<runVars, cmdVars, runs>>

\* the first loop, one task at a time: pids.append(int(pid)), where only
\* ValueError is caught
KillConvert ==
    /\ killtasks.pc = "convert"
    /\ LET n == Len(killtasks.pids) + Len(SelectSeq(killtasks.logged, LAMBDA m : m = "convert"))
           task == killtasks.tasks[n + 1]
       IN  IF n = Len(killtasks.tasks)
           THEN killtasks' = [killtasks EXCEPT !.pc = "kill"]
           ELSE CASE IntRaises(task) = None ->
                       killtasks' = [killtasks EXCEPT !.pids = Append(@, task.pid)]
                  [] IntRaises(task) = "ValueError" ->
                       killtasks' = [killtasks EXCEPT !.logged = Append(@, "convert")]
                  [] OTHER ->
                       killtasks' = [killtasks EXCEPT !.pc = "raised",
                                                      !.raised = IntRaises(task)]
    /\ UNCHANGED <<runVars, cmdVars, runs>>

\* a call of os.getpgid or os.kill for a pid: the function, whether it is
\* given the pid or the group found for the pid, and how it ended
OsCall(fn, target, pid, res) == [fn |-> fn, target |-> target, pid |-> pid, res |-> res]

\* an iteration that signals the pid before it looks up the group
PidCalls_KillFirst(pid, group, getpgid, kill, killpg) ==
    <<OsCall("kill", "pid", pid, kill)>>
    \o (IF group THEN <<OsCall("getpgid", "pid", pid, getpgid)>> ELSE <<>>)
    \o (IF group /\ getpgid = "ok" THEN <<OsCall("kill", "pgid", pid, killpg)>> ELSE <<>>)

\* the calls of one iteration of the second loop, in their order
PidCalls(pid, group, getpgid, kill, killpg) ==
    (IF group THEN <<OsCall("getpgid", "pid", pid, getpgid)>> ELSE <<>>)
    \o <<OsCall("kill", "pid", pid, kill)>>
    \o (IF group /\ getpgid = "ok" THEN <<OsCall("kill", "pgid", pid, killpg)>> ELSE <<>>)

\* the second loop, one pid at a time: the group is looked up first, the pid
\* is signalled whatever the lookup did, and then the group where one was found
KillPid ==
    /\ killtasks.pc = "kill"
    /\ LET n == Len(killtasks.signalled)
       IN  IF n = Len(killtasks.pids)
           THEN killtasks' = [killtasks EXCEPT !.pc = "returned"]
           ELSE \E getpgid \in OsOutcomes, kill \in OsOutcomes, killpg \in OsOutcomes :
                  LET group == killtasks.kill_pgid
                      found == group /\ getpgid = "ok"
                  IN  /\ ~group => (getpgid = "ok" /\ killpg = "ok")
                      /\ ~found => killpg = "ok"
                      /\ killtasks' = [killtasks EXCEPT
                            !.signalled = Append(@, killtasks.pids[n + 1]),
                            !.calls = @ \o PidCalls(killtasks.pids[n + 1], group, getpgid,
                                                    kill, killpg),
                            !.logged = @ \o (IF group THEN LogOf(getpgid, "find pgid") ELSE <<>>)
                                         \o LogOf(kill, "kill pid")
                                         \o (IF group /\ ~found THEN <<"no pgid">> ELSE <<>>)
                                         \o (IF found THEN LogOf(killpg, "kill pgid") ELSE <<>>)]
    /\ UNCHANGED <<runVars, cmdVars, runs>>

NextKilltasks == KillCall \/ KillConvert \/ KillPid

SpecKilltasks == InitCmdList /\ [][NextKilltasks]_vars

\* the pids of the tasks that int() converts, in their order
ConvertiblePids(tasks) ==
    LET good == SelectSeq(tasks, LAMBDA t : t.type \in {"int", "str"})
    IN  [i \in 1..Len(good) |-> good[i].pid]

\* C18 as stated: _killtasks never raises, whatever the tasks are; when it is
\* done every task that converts to an integer has been signalled, and every
\* task that does not has been logged
C18_Original ==
    /\ killtasks.pc # "raised"
    /\ killtasks.pc = "returned" /\ killtasks.logged # <<"no tasks">>
       => /\ killtasks.signalled = ConvertiblePids(killtasks.tasks)
          /\ Len(SelectSeq(killtasks.logged, LAMBDA m : m = "convert"))
             = Len(killtasks.tasks) - Len(ConvertiblePids(killtasks.tasks))

\* with tasks that are numbers or strings it is so
NumbersOrStrings == \A i \in 1..Len(killtasks.tasks) : killtasks.tasks[i].type # "NoneType"

KilltasksOnStrings == NumbersOrStrings => C18_Original

(***************************************************************************)
(* The specification of the runs of the timeout classes, with children     *)
(* that exit, hang, write or keep silent, read their stdin or do not; the  *)
(* engine runs on as long as it can take a step, and time passes.          *)
(***************************************************************************)
TimeoutPlans ==
    { Plan(lit, 0, mode) : lit \in {<<>>, <<"q">>, <<"q", " ", "x">>}, mode \in {"exit", "hang"} }
    \cup { DeafPlan(<<>>, 0, mode) : mode \in {"exit", "hang"} }

TimeoutArgs ==
    ArgsOf({c \in RunClasses : IsTimeoutClass(c)},
           {DefaultCmd}, {Nothing, Some(<<"i">>), LongInput}, {"None"}, {FALSE},
           {Some(0), Some(1)}, {NoTable}, {None}, TimeoutPlans)

InitTimeout == InitWith(TimeoutArgs)

NextTimeout ==
    \/ EngineQA
    \/ ChildWrite
    \/ ChildExit
    \/ ChildSignalled
    \/ Tick

SpecTimeout == InitTimeout /\ [][NextTimeout]_vars

SpecTimeoutFair == SpecTimeout /\ WF_vars(EngineQA) /\ WF_vars(Tick)

\* a run of a timeout class has its child
TimeoutRunSpawned == IsTimeoutClass(args.cls) /\ process.spawned

\* what a timeout run may return: the child's exit status, or (123, '')
TimeoutResult ==
    \/ ReturnedCode = child.status
    \/ ReturnedCode = Some(RUNRUN_TIMEOUT_EXITCODE) /\ ReturnedOutput = Some(<<>>)

\* C19 as stated: every run of a timeout class that has spawned its child
\* comes to an end, whatever the child does, and where it returns it returns
\* the child's exit status or (123, '').  (A run whose engine is blocked in
\* the write of its input to a child that neither reads nor exits stays
\* there: neither side has a step left.)
C19_Original ==
    /\ TimeoutRunSpawned ~> (pc \in {"returned", "raised"})
    /\ []((IsTimeoutClass(args.cls) /\ pc = "returned") => TimeoutResult)

\* with a child that reads its stdin, or an input the pipe takes, it is so
C19_ReadingChild ==
    /\ (TimeoutRunSpawned /\ ~InputStuck) ~> (pc \in {"returned", "raised"})
    /\ []((IsTimeoutClass(args.cls) /\ pc = "returned") => TimeoutResult)

\* a run of a class that captures the child's output through the pipe has
\* returned an output, and the engine has read all there was in the pipe
PipeRunReturned ==
    /\ args.cls.target = "pipe" /\ pc = "returned"
    /\ child.pipe = <<>> /\ ReturnedOutput # Nothing

\* the timeout hook has stopped the run
StoppedByTimeout == IsTimeoutClass(args.cls) /\ Pos("RunLoopException") # 0

MaxCmd == 4

CmdAlphabet == {"e", " ", "'", "\""}

CmdTexts == UNION { [1..n -> CmdAlphabet] : n \in 0..MaxCmd }

\* echo 'a b', echo "a b" and echo a\ b
QuotedCmds == {<<"e", " ", "'", "a", " ", "b", "'">>,
               <<"e", " ", "\"", "a", " ", "b", "\"">>,
               <<"e", " ", "a", Backslash, " ", "b">>}

CmdTuple(tokens) == [kind |-> "tuple", val |-> tokens]

TokenLists == {<<>>, <<<<"e">>>>, <<<<"e">>, <<"a", " ", "b">>>>, <<<<"'", "e", "'">>, <<"e">>>>,
               <<<<"e">>, <<"a", Backslash>>, <<"b">>>>, <<<<"e">>, <<"a", Backslash, " ", "b">>>>,
               <<<<"e">>, <<>>, <<" ">>>>}

ComposeCmds ==
    { CmdStr(t) : t \in CmdTexts \cup QuotedCmds }
    \cup { CmdList(t) : t \in TokenLists } \cup { CmdTuple(t) : t \in TokenLists }

ComposeArgs ==
    ArgsOf(Named({"Run", "RunNoShell", "RunNoShellAsyncLoop"}), ComposeCmds, {Nothing}, {"None"},
           {FALSE}, {Nothing}, {NoTable}, {None}, {Plan(<<>>, 0, "exit")})

InitCompose == InitWith(ComposeArgs)

NextCompose ==
    \/ Construct
    \/ StartInPath
    \/ MakeShellCommand
    \/ MakePopenNamedArgs
    \/ InitProcess

SpecCompose == InitCompose /\ [][NextCompose]_vars

\* the tokens one after the other
RECURSIVE Concat(_)
Concat(tokens) == IF tokens = <<>> THEN <<>> ELSE Head(tokens) \o Concat(Tail(tokens))

Chars(s) == { s[i] : i \in 1..Len(s) }

\* what is left of a text whose only special character is the quote q: the
\* quotes go, and so does the whitespace that is not between two of them
RECURSIVE Stripped(_, _, _)
Stripped(s, q, inside) ==
    IF s = <<>> THEN <<>>
    ELSE IF Head(s) = q THEN Stripped(Tail(s), q, ~inside)
    ELSE IF IsSpace(Head(s)) /\ ~inside THEN Stripped(Tail(s), q, inside)
    ELSE <<Head(s)>> \o Stripped(Tail(s), q, inside)

\* C21: a no-shell class that has spawned its child has passed Popen a token
\* list and shell=False without an executable: for a string command the
\* tokens of its POSIX-shell tokenization, where whitespace outside quotes
\* separates and quotes group and are removed (echo 'a b' gives the two tokens
\* echo and a b), for a list or a tuple the command itself
C21_NoShellTokens ==
    (args.cls.noshell /\ process.spawned) =>
        LET call == child.spawn
            text == args.cmd.val
        IN  /\ call.shell = FALSE /\ call.executable = None
            /\ CmdIsSequence(args.cmd) => call.cmd = args.cmd
            /\ args.cmd.kind = "str" =>
                  /\ call.cmd.kind = "list"
                  /\ \A q \in {"'", "\""} :
                        (Chars(text) \cap {"'", "\"", Backslash}) \subseteq {q}
                        => /\ Concat(call.cmd.val) = Stripped(text, q, FALSE)
                           /\ q \notin Chars(text)
                              => \A i \in 1..Len(call.cmd.val) :
                                    call.cmd.val[i] # <<>> /\ " " \notin Chars(call.cmd.val[i])
                  /\ text = <<"e", " ", "'", "a", " ", "b", "'">>
                        => call.cmd.val = <<<<"e">>, <<"a", " ", "b">>>>
                  /\ text = <<"e", " ", "a", Backslash, " ", "b">>
                        => call.cmd.val = <<<<"e">>, <<"a", " ", "b">>>>

\* RunNoShell has spawned echo 'a b' as the two tokens echo and a b
C21_Witness ==
    /\ args.cls.name = "RunNoShell" /\ process.spawned
    /\ args.cmd = CmdStr(<<"e", " ", "'", "a", " ", "b", "'">>)
    /\ child.spawn = [cmd |-> CmdList(<<<<"e">>, <<"a", " ", "b">>>>), shell |-> FALSE,
                      executable |-> None]

\* the poll of a loop class has seen that the child has ended
PollSawEnd == args.cls.loop /\ pc = "loop" /\ ec # Nothing

\* C22 as stated: once a poll has seen the end of the child, by its exit or
\* by a signal, the loop is over: what follows is the final read and the
\* exit code, not another iteration
C22_Original == PollSawEnd => ~LoopContinues(ec)

\* for a child that exits by itself it is so
C22_ExitedChild == (PollSawEnd /\ child.state = "exited") => ~LoopContinues(ec)

IsPrefix(s, t) == Len(s) <= Len(t) /\ SubSeq(t, 1, Len(s)) = s

\* what the engine has taken out of the pipe so far, coerced as it is read
ReadSoFar == ensure_ascii_string(Take(child.written, Len(child.written) - Len(child.pipe)))

\* a hook has ended the run with a RunLoopException
StoppedByHook == Pos("RunLoopException") # 0

\* C23: in a loop class the output buffer starts empty and changes only by
\* the append of the chunk just read, so it always is what has been read so
\* far, in order, and every value is a prefix of the next, up to the end of
\* the run by a hook; a run that returns without such a stop returns all the
\* chunks read and the final drain, in order
C23_AppendOnly ==
    /\ [][ (args.cls.loop /\ process_output' # process_output) =>
              \/ pc = "wait" /\ process_output' = Some(<<>>)
              \/ /\ pc = "loop" /\ pc' \in {"loop_poll", "cleanup", "raised"}
                 /\ IF Pos("RunLoopException")' # 0
                    THEN pc' = "cleanup"
                    ELSE /\ IsPrefix(Get(process_output), Get(process_output'))
                         /\ child.mode # "stream" => Get(process_output') = ReadSoFar' ]_vars
    /\ []((args.cls.loop /\ child.mode # "stream" /\ process_output # Nothing /\ ~StoppedByHook)
            => Get(process_output) = ReadSoFar)
    /\ []((args.cls.loop /\ child.mode # "stream" /\ pc = "returned" /\ ~StoppedByHook)
            => ReturnedOutput = Some(ReadSoFar))

\* a loop run has read a first chunk and the child has written more since
C23_Witness ==
    /\ args.cls.loop /\ pc = "loop" /\ ~StoppedByHook
    /\ Len(Get(process_output)) = ReadSize
    /\ child.pipe # <<>>
    /\ Len(child.written) = ReadSize + 1

(***************************************************************************)
(* The specification of the loop classes that read without blocking and    *)
(* have no hook, on children that write up to more than the pipe holds and *)
(* exit, and that read their stdin or leave it alone.  The engine runs on  *)
(* as long as it can take a step, so does the child, and a read that can   *)
(* take data out of the pipe again and again does so in the end.           *)
(***************************************************************************)
AsyncLoopPlans ==
    { Plan(lit, code, "exit") : lit \in Literals, code \in ExitCodes }
    \cup { DeafPlan(lit, 0, "exit") : lit \in Literals }

AsyncLoopArgs ==
    ArgsOf({c \in RunClasses : c.loop /\ c.async /\ c.hook = "none"},
           {DefaultCmd}, {Nothing, Some(<<"i">>), LongInput}, {"None"}, {FALSE},
           {Nothing}, {NoTable}, {None}, AsyncLoopPlans)

InitAsyncLoop == InitWith(AsyncLoopArgs)

NextAsyncLoop ==
    \/ EngineQA
    \/ ChildWrite
    \/ ChildExit

\* a read of the loop takes data out of the pipe
ReadTakes == (LoopBody \/ LoopFinal) /\ Len(child'.pipe) < Len(child.pipe)

SpecAsyncLoop == InitAsyncLoop /\ [][NextAsyncLoop]_vars

SpecAsyncLoopFair ==
    /\ SpecAsyncLoop
    /\ WF_vars(EngineQA) /\ WF_vars(ChildWrite) /\ WF_vars(ChildExit)
    /\ SF_vars(ReadTakes)

\* a run of a loop class that reads without blocking has its child
AsyncLoopRunSpawned == args.cls.loop /\ args.cls.async /\ process.spawned

\* the run has raised, or it has returned and its child has exited
AsyncLoopRunEnded == pc = "raised" \/ (pc = "returned" /\ child.state = "exited")

\* C24 as stated: a loop run that reads without blocking never stays stuck on
\* a full pipe: its child, which writes a finite output and exits, comes to
\* its exit, the run comes to its end, and what it returns is all the child
\* wrote.  (A run whose engine is blocked in the write of its input to a
\* child that does not read it never enters the loop: the child fills the
\* output pipe and neither side has a step left.)
C24_Original ==
    /\ AsyncLoopRunSpawned ~> AsyncLoopRunEnded
    /\ [](PipeRunReturned => ReturnedOutput = Some(ensure_ascii_string(child.written)))

\* with a child that reads its stdin, or an input the pipe takes, it is so
C24_TakenInput ==
    /\ (AsyncLoopRunSpawned /\ ~InputStuck) ~> AsyncLoopRunEnded
    /\ [](PipeRunReturned => ReturnedOutput = Some(ensure_ascii_string(child.written)))

\* the length of the output buffer, 0 before the loop has set it
BufferLen == IF process_output = Nothing THEN 0 ELSE Len(Get(process_output))

\* C25: in a QA run hit_position is 0 until the first hit, never decreases,
\* never exceeds the length of the output buffer, changes only on a hit and
\* then equals the length of the buffer; a hit is a match of a question on the
\* output after the old hit_position, so output that was answered is never
\* answered again, and an invocation with an empty chunk writes no answer
C25_HitPosition ==
    /\ []((IsQAClass(args.cls) /\ hits = <<>>) => hit_position = 0)
    /\ [](IsQAClass(args.cls) => hit_position <= BufferLen)
    /\ [][IsQAClass(args.cls) =>
            /\ hit_position' >= hit_position
            /\ hit_position' # hit_position => hits' # hits
            /\ hits' # hits =>
                 /\ Len(hits') = Len(hits) + 1
                 /\ hit_position' = BufferLen'
                 /\ BufferLen' > BufferLen
                 /\ FirstMatch(AllQA(qa, qa_reg), Drop(Get(process_output'), hit_position)) # 0
                 /\ FirstMatch(AllQA(qa, qa_reg), Drop(Get(process_output'), hit_position))
                      = hits'[Len(hits')].idx ]_vars

\* with qa={"": "a"}: two hits, each on output that came after the answer
\* before it, and then an invocation with an empty chunk, which the question
\* matches and which is counted as a miss and not answered
C25_Witness ==
    /\ IsQAClass(args.cls) /\ args.qa = TableEmpty.qa
    /\ Len(hits) = 2
    /\ hit_position = BufferLen
    /\ hit_position >= 2
    /\ loop_miss_count = 1

\* an invocation of the hook of a QA run that does not raise an error
QAHookInvoked == IsQAClass(args.cls) /\ HookInvoked /\ raised' = None

\* C26 as stated: at every point of a QA run miss_count is the number of the
\* latest iterations in a row that found no question matching, no longer
\* output and no no_qa pattern matching: it is 0 when the loop starts, such an
\* iteration adds 1 to it, and an iteration with a hit, with a growing output
\* or with a no_qa match ends the row
C26_Original ==
    /\ []((IsQAClass(args.cls) /\ process_output = Nothing) => loop_miss_count = 0)
    /\ [][QAHookInvoked =>
            loop_miss_count' =
               IF /\ hits' = hits
                  /\ BufferLen' = BufferLen
                  /\ ~NoQAMatches(args.no_qa, Get(process_output'))
               THEN loop_miss_count + 1 ELSE 0]_vars

\* C26, amended: at every point of a QA run miss_count is the number of
\* invocations since the latest hit (since the start of the loop before the
\* first hit) that found no question matching, an output no longer than the
\* length the hook has noted and no no_qa pattern matching; only a hit sets
\* it back to 0, a growing output or a no_qa match leaves it as it is
C26_MissesSinceHit == IsQAClass(args.cls) => loop_miss_count = missed

\* two misses and then an invocation that finds the output grown and no
\* question matching: the count is still 2
C26_Witness ==
    /\ IsQAClass(args.cls) /\ Running
    /\ hits = <<>>
    /\ loop_miss_count = 2 /\ missed = 2
    /\ loop_previous_ouput_length = BufferLen /\ BufferLen = 2
    /\ child.written = <<"x", "q", " ">>

\* C27: every invocation of the QA hook that does not raise an error does
\* exactly one of four things to the counters: on a hit miss_count becomes 0;
\* without a hit and with an output longer than prev_output_len,
\* prev_output_len becomes the length of the output and miss_count stays;
\* without a hit, with no longer output and with a no_qa pattern matching,
\* both stay; otherwise miss_count rises by exactly 1
C27_CounterCases ==
    [][QAHookInvoked =>
         LET hit == hits' # hits
             longer == BufferLen' > loop_previous_ouput_length
             noqa == NoQAMatches(args.no_qa, Get(process_output'))
         IN  CASE hit ->
                    /\ loop_miss_count' = 0
                    /\ UNCHANGED loop_previous_ouput_length
               [] ~hit /\ longer ->
                    /\ loop_previous_ouput_length' = BufferLen'
                    /\ UNCHANGED loop_miss_count
               [] ~hit /\ ~longer /\ noqa ->
                    UNCHANGED <<loop_miss_count, loop_previous_ouput_length>>
               [] OTHER ->
                    /\ loop_miss_count' = loop_miss_count + 1
                    /\ UNCHANGED loop_previous_ouput_length]_vars

\* qa={"q": "a"}, no_qa=["x"]: a miss on an empty output, then the x has come
\* and its length is noted, the miss still counted
C27_Witness ==
    /\ IsQAClass(args.cls) /\ pc = "loop_poll"
    /\ args.no_qa # <<>>
    /\ hits = <<>>
    /\ loop_miss_count = 1
    /\ BufferLen = 1 /\ loop_previous_ouput_length = 1

\* a run of a timeout class has returned, and the poll of its loop had seen
\* the child's own exit (the loop ends at that poll, so no hook invocation
\* of the loop came after it)
TimeoutRunSawExit ==
    IsTimeoutClass(args.cls) /\ pc = "returned" /\ ~LoopContinues(ec)

\* C28 as stated: a timeout run whose poll has seen the child's exit before a
\* hook invocation found the timeout expired returns the child's exit status
\* and the captured output, not (123, '')
C28_Original ==
    TimeoutRunSawExit =>
        /\ ReturnedCode = child.status
        /\ ~StoppedByTimeout
        /\ ReturnedOutput = Some(ReadSoFar)

\* it is so when the timeout has not expired by the time the run returns
C28_InTime ==
    (TimeoutRunSawExit /\ ~TimeoutExpired(now, args.timeout)) =>
        /\ ReturnedCode = child.status
        /\ ~StoppedByTimeout
        /\ ReturnedOutput = Some(ReadSoFar)

\* a QA run has returned, and the poll of its loop had seen the child's own
\* exit (miss_count is within 0..20 at that poll, or the loop would have
\* bailed out before it)
QARunSawExit == IsQAClass(args.cls) /\ pc = "returned" /\ ~LoopContinues(ec)

\* the QA hook has stopped the run
StoppedByMissLimit == IsQAClass(args.cls) /\ Pos("RunLoopException") # 0

\* C29 as stated: a QA run whose poll has seen the child's exit while
\* miss_count was within 0..20 returns the child's exit status and the full
\* output, not 124
C29_Original ==
    QARunSawExit =>
        /\ ReturnedCode = child.status
        /\ ~StoppedByMissLimit
        /\ ReturnedOutput = Some(ReadSoFar)

\* it is so when the invocation of the hook after the loop leaves miss_count
\* within 0..20: the poll saw the exit with miss_count below 20, or the rest
\* of the output gave a hit, progress or a no_qa match
C29_BelowLimit ==
    (QARunSawExit /\ loop_miss_count <= LOOP_MAX_MISS_COUNT) =>
        /\ ReturnedCode = child.status
        /\ ~StoppedByMissLimit
        /\ ReturnedOutput = Some(ReadSoFar)

(***************************************************************************)
(* The specification of several Runs of loop classes in one process, each  *)
(* with its own child: a Run spawns its child, polls it, and a Run with a  *)
(* timeout or QA hook may stop.  The kernel keeps the exit status of a     *)
(* child that has ended (a zombie) until a waitpid of the process takes    *)
(* it; waitpid(-1) takes the status of any one of them.                    *)
(***************************************************************************)
\* the children whose exit status waits to be taken
Zombies(rs) == { j \in 1..MaxRuns : rs[j].child = "zombie" }

\* os.kill(pid, SIGKILL) of Run i on its own child: a running child has ended
\* by the time the call is back, or ends later; a child that has ended
\* already is not affected, and one that is gone is no error (ESRCH)
KillOwn(rs, i, dead) ==
    IF rs[i].child # "running" THEN rs
    ELSE IF dead THEN [rs EXCEPT ![i].child = "zombie", ![i].status = Some(0 - SIGKILL)]
    ELSE [rs EXCEPT ![i].child = "killed"]

\* a waitpid of Run i takes the exit status of the child of Run j
Reaped(rs, i, j) == [rs EXCEPT ![j].child = "reaped", ![j].reaped_by = i]

\* Run.stop_tasks of Run i: _killtasks([self._process.pid]), then
\* os.waitpid(-1, os.WNOHANG), which takes the status of one of the children
\* of the process that have ended, whichever, and nothing where there is none
stop_tasks(rs, i) ==
    UNION { LET k == KillOwn(rs, i, dead)
            IN  IF Zombies(k) = {} THEN {k} ELSE { Reaped(k, i, j) : j \in Zombies(k) }
            : dead \in BOOLEAN }

\* the code of the RunLoopException of a hook
SentinelOf(hook) ==
    IF hook = "timeout" THEN RUNRUN_TIMEOUT_EXITCODE ELSE RUNRUN_QA_MAX_MISS_EXITCODE

\* _init_process: the Run gets its child
RunSpawn(i) ==
    /\ runs[i].pc = "idle"
    /\ \E hook \in {"none", "timeout", "qa"} :
         runs' = [runs EXCEPT ![i].pc = "loop", ![i].hook = hook, ![i].child = "running"]
    /\ UNCHANGED <<runVars, cmdVars, killtasks>>

\* the child ends: by itself with its exit code, or by the signal sent to it
RunChildEnds(i) ==
    /\ runs[i].child \in {"running", "killed"}
    /\ \E c \in ExitCodes :
         runs' = [runs EXCEPT ![i].child = "zombie",
                              ![i].status = IF runs[i].child = "killed"
                                            THEN Some(0 - SIGKILL) ELSE Some(c)]
    /\ UNCHANGED <<runVars, cmdVars, killtasks>>

\* the hook of Run i stops the run while its loop goes on
RunStopTasks(i) ==
    /\ runs[i].pc = "loop"
    /\ runs[i].hook # "none"
    /\ \E after \in stop_tasks(runs, i) :
         runs' = [after EXCEPT ![i].pc = "returned",
                               ![i].code = Some(SentinelOf(runs[i].hook))]
    /\ UNCHANGED <<runVars, cmdVars, killtasks>>

\* the poll of Run i that ends its loop: Popen.poll() is waitpid(pid, WNOHANG),
\* which takes the status of the Run's own child, and where another waitpid
\* has taken it (ECHILD) Popen sets the returncode to 0; the hook is called
\* once more after the loop and may stop the run
RunPoll(i) ==
    /\ runs[i].pc = "loop"
    /\ runs[i].child \in {"zombie", "reaped"}
    /\ LET own == runs[i].child = "zombie"
           code == IF own THEN Get(runs[i].status) ELSE 0
           polled == IF own THEN Reaped(runs, i, i) ELSE runs
       IN  /\ code >= 0
           /\ \/ runs' = [polled EXCEPT ![i].pc = "returned", ![i].code = Some(code)]
              \/ /\ runs[i].hook # "none"
                 /\ \E after \in stop_tasks(polled, i) :
                      runs' = [after EXCEPT ![i].pc = "returned",
                                            ![i].code = Some(SentinelOf(runs[i].hook))]
    /\ UNCHANGED <<runVars, cmdVars, killtasks>>

NextStopTasks ==
    \E i \in 1..MaxRuns : RunSpawn(i) \/ RunChildEnds(i) \/ RunStopTasks(i) \/ RunPoll(i)

SpecStopTasks == InitCmdList /\ [][NextStopTasks]_vars

\* the status of the child of Run i was taken by Run i, if by any, and a Run
\* that has returned without a stop has returned its child's exit status
OwnChildOnly(i) ==
    /\ runs[i].child = "reaped" => runs[i].reaped_by = i
    /\ (runs[i].pc = "returned" /\ Get(runs[i].code) \notin {RUNRUN_TIMEOUT_EXITCODE,
                                                            RUNRUN_QA_MAX_MISS_EXITCODE})
       => runs[i].code = runs[i].status

\* C30 as stated: with several Runs active in one process the stop_tasks of
\* a Run takes the exit status of that Run's own child only, so every other
\* Run gets the exit status of its own child
C30_Original == \A i \in 1..MaxRuns : OwnChildOnly(i)

\* the signal is sent to the Run's own child only: a child that was
\* signalled is the child of a Run that has stopped
C30_SignalsOwnChild ==
    \A i \in 1..MaxRuns :
        (runs[i].child = "killed" \/ runs[i].status = Some(0 - SIGKILL))
        => /\ runs[i].pc = "returned"
           /\ runs[i].hook # "none"
           /\ runs[i].code = Some(SentinelOf(runs[i].hook))

\* call k of _killtasks is the signal to a pid, the lookup of its group, or
\* the signal to the group found for it
IsKillPid(c) == c.fn = "kill" /\ c.target = "pid"

IsGetpgid(c) == c.fn = "getpgid"

IsKillPgid(c) == c.fn = "kill" /\ c.target = "pgid"

\* C31: with kill_pgid set the group of a pid is looked up right before the
\* signal to the pid, the signal to the pid follows every lookup whatever its
\* result, and a signal to the group comes only right after the signal to
\* the pid and only for a lookup that found a group; with kill_pgid unset
\* the only calls are the signals to the pids; every pid handled was signalled
C31_GroupAfterPid ==
    LET c == killtasks.calls
        n == Len(c)
    IN  /\ ~killtasks.kill_pgid => \A k \in 1..n : IsKillPid(c[k])
        /\ killtasks.kill_pgid =>
             \A k \in 1..n :
                /\ IsKillPid(c[k]) =>
                      k > 1 /\ IsGetpgid(c[k - 1]) /\ c[k - 1].pid = c[k].pid
                /\ IsGetpgid(c[k]) =>
                      k < n /\ IsKillPid(c[k + 1]) /\ c[k + 1].pid = c[k].pid
                /\ IsKillPgid(c[k]) =>
                      /\ k > 2
                      /\ IsKillPid(c[k - 1]) /\ c[k - 1].pid = c[k].pid
                      /\ IsGetpgid(c[k - 2]) /\ c[k - 2].pid = c[k].pid
                      /\ c[k - 2].res = "ok"
        /\ LET sent == SelectSeq(c, IsKillPid)
           IN  [k \in 1..Len(sent) |-> sent[k].pid] = killtasks.signalled

\* two pids with kill_pgid set: no group is found for the first, which is
\* signalled all the same, and the group of the second is signalled as well
C31_Witness ==
    /\ killtasks.pc = "returned" /\ killtasks.kill_pgid
    /\ Len(killtasks.calls) = 5
    /\ killtasks.calls[1].res = "ESRCH"
    /\ IsKillPid(killtasks.calls[2])
    /\ IsKillPgid(killtasks.calls[5])

(***************************************************************************)
(* Claim C32: the child's stdin.  _init_input is the only place that       *)
(* writes the input and closes stdin, and send_all is the only other       *)
(* write to it.                                                            *)
(***************************************************************************)
\* the run is past _init_input: it waits, loops, or does what follows
PastInitInput ==
    pc \in {"wait", "loop", "loop_poll", "cleanup", "post_exitcode", "return_path", "returned"}

\* no write_input and no send_all follows a close_stdin
NoWriteAfterClose ==
    \A i \in 1..Len(trace) : \A j \in 1..Len(trace) :
        (trace[i] = "close_stdin" /\ i < j) => trace[j] \notin {"write_input", "send_all"}

\* the close comes directly after the spawn or after the write of the input
ClosedRightAfterInput ==
    \A i \in 1..Len(trace) :
        trace[i] = "close_stdin" => (i > 1 /\ trace[i - 1] \in {"spawn", "write_input"})

\* C32: a run of a non-QA class that is past _init_input has closed the
\* child's stdin, directly after the spawn or after the write of the input; a
\* run of a QA class that is past _init_input has the stdin open; and in no
\* run does a write of the input or of an answer follow the close.
C32_StdinClosedBeforeWait ==
    /\ (PastInitInput /\ ~IsQAClass(args.cls)) =>
           (process.stdin = "closed" /\ Pos("close_stdin") # 0)
    /\ (PastInitInput /\ IsQAClass(args.cls)) =>
           (process.stdin = "open" /\ Pos("close_stdin") = 0)
    /\ ClosedRightAfterInput
    /\ NoWriteAfterClose

\* a non-QA run wrote its input, closed stdin and went on to wait
C32_Witness ==
    /\ ~IsQAClass(args.cls)
    /\ pc = "returned"
    /\ Pos("write_input") # 0
    /\ Pos("close_stdin") = Pos("write_input") + 1
    /\ process.stdin = "closed"

(***************************************************************************)
(* Claim C33: the phases of _run (_run_pre, _wait_for_process, _run_post). *)
(***************************************************************************)
\* the place of each position of the run in the order of _run
Phase(p) ==
    CASE p = "call" -> 0
      [] p = "start_in_path" -> 1
      [] p = "make_shell_command" -> 2
      [] p = "make_popen_named_args" -> 3
      [] p = "init_process" -> 4
      [] p = "init_input" -> 5
      [] p = "wait" -> 6
      [] p \in {"loop", "loop_poll"} -> 7
      [] p = "cleanup" -> 8
      [] p = "post_exitcode" -> 9
      [] p = "return_path" -> 10
      [] OTHER -> 11

\* the event a step has added to the trace, if it added one
Added(e) == Len(trace') > Len(trace) /\ \E i \in (Len(trace) + 1)..Len(trace') : trace'[i] = e

PhaseStep ==
    \* a run only moves forward, one phase at a time at most once; the poll
    \* loop iterates inside the wait-or-loop phase
    /\ pc' # pc =>
          \/ Phase(pc') > Phase(pc)
          \/ (Phase(pc) = 7 /\ Phase(pc') = 7)
    \* each phase acts at its own place only
    /\ Added("chdir") => (pc = "start_in_path" /\ Pos("chdir") = 0)
    /\ Added("compose") => (pc = "make_shell_command" /\ Pos("compose") = 0)
    /\ Added("spawn") => (pc = "init_process" /\ Pos("spawn") = 0)
    /\ (Added("write_input") \/ Added("close_stdin")) => pc = "init_input"
    /\ (Added("close_stdout") \/ Added("close_file")) => pc = "cleanup"
    /\ Added("post_exitcode") => (pc = "post_exitcode" /\ Pos("post_exitcode") = 0)
    /\ Added("restore_path") => (pc = "return_path" /\ Pos("restore_path") = 0)
    /\ cwd' # cwd => (Added("chdir") \/ Added("restore_path"))
    \* the child is spawned once, after the change of directory
    /\ (child.state = NoChild.state /\ child'.state # child.state) => Added("spawn")

\* C33: every step of a run moves it forward in the one order start in path,
\* compose, spawn, feed stdin, wait or loop, cleanup, post-process the exit
\* code, restore the path, return; every phase acts at most once and only at
\* its place, so the one child is spawned after the change of directory and
\* the path is restored after cleanup and after the exit code is processed.
C33_PhaseOrder == [][PhaseStep]_vars

\* a run in a startpath went through all phases and returned
C33_Witness ==
    /\ pc = "returned"
    /\ 0 < Pos("chdir")
    /\ Pos("chdir") < Pos("compose")
    /\ Pos("compose") < Pos("spawn")
    /\ Pos("spawn") < Pos("close_stdin")
    /\ Pos("close_stdin") < Pos("close_stdout")
    /\ Pos("close_stdout") < Pos("post_exitcode")
    /\ Pos("post_exitcode") < Pos("restore_path")
    /\ Pos("restore_path") = Len(trace)

(***************************************************************************)
(* Claim C34: RunPty and RunNoShellPty.                                    *)
(***************************************************************************)
PtyRunSpawned == args.cls.target = "pty" /\ process.spawned

\* C34 as stated: a Pty run that has spawned its child on the pseudo-terminal
\* goes on to wait for it and returns the child's exit status with empty
\* output; it does not end in an error
C34_Original ==
    PtyRunSpawned =>
        /\ pc # "raised"
        /\ pc = "returned" => (ReturnedCode = child.status /\ ReturnedOutput = Some(<<>>))

\* no Pty run gets past _init_input: Popen gives no stdin handle for a file
\* descriptor, so the write of an input and the close of stdin both fail
C34_EndsInInitInput ==
    PtyRunSpawned => (pc \in {"init_input", "raised"} /\ Pos("close_stdin") = 0)

(***************************************************************************)
(* Claim C35: the final drain of a QA run.                                 *)
(***************************************************************************)
\* the poll loop of a QA run has ended on a poll that saw the child's exit;
\* what follows is the read of the rest and _loop_process_output_final
QAFinalDrain == IsQAClass(args.cls) /\ pc = "loop" /\ ~LoopContinues(ec)

\* C35 as stated: once a QA run has observed the child's exit, the final
\* drain writes no answer to the child's stdin, whatever the drained output
\* contains
C35_Original == [][QAFinalDrain => (hits' = hits /\ ~Added("send_all"))]_vars

\* the final hook invocation with an empty rest writes nothing
C35_EmptyRest == [][(QAFinalDrain /\ BufferLen' = BufferLen) => hits' = hits]_vars

(***************************************************************************)
(* Claim C36: a failed read of the async back-end.                         *)
(***************************************************************************)
\* the engine leaves the top of the loop of an async class, there was output
\* to read and the read took none of it: the read has failed
FailedAsyncRead ==
    /\ args.cls.async /\ args.cls.loop
    /\ pc = "loop" /\ pc' # "loop"
    /\ child.pipe # <<>>
    /\ Len(child'.pipe) = Len(child.pipe)

\* the step is the one of an empty chunk: the buffer is as it was, the hook
\* has run on the empty chunk, and the loop goes on unless the hook ends it
EmptyChunkStep ==
    LET h == Hook(<<>>, Get(process_output))
    IN  /\ raised' = (IF h.outcome \in {"ok", "stop"} THEN None ELSE h.outcome)
        /\ loop_miss_count' = h.miss
        /\ loop_previous_ouput_length' = h.prev
        /\ hits' = hits
        /\ h.outcome = "ok" =>
              /\ process_output' = process_output
              /\ pc' = IF LoopContinues(ec) THEN "loop_poll" ELSE "cleanup"
        /\ h.outcome = "stop" =>
              /\ pc' = "cleanup"
              /\ process_exitcode' = Some(h.code)

\* C36: in an async class a read that fails, in the loop or in the final
\* drain, is an empty chunk and not an error: the buffer is unchanged by it,
\* the hook is invoked for the empty chunk, and the loop keeps running unless
\* that hook invocation ends it.
C36_FailedReadIsEmptyChunk == [][FailedAsyncRead => EmptyChunkStep]_vars

\* a run has returned although the child's last output is still in the pipe:
\* the final drain has failed and the run went on with what it had
C36_Witness ==
    /\ args.cls.async /\ args.cls.loop
    /\ pc = "returned"
    /\ child.state = "exited"
    /\ child.pipe # <<>>
    /\ ~StoppedByHook
    /\ ReturnedCode = child.status

(***************************************************************************)
(* The specification of the answers of a QA run: one question, answered    *)
(* from every short answer text, given as a string or as the head of a     *)
(* list, with and without add_newline.                                     *)
(***************************************************************************)
MaxAnswer == 2

AnswerAlphabet == {"a", "\n"}

AnswerTexts == UNION { [1..n -> AnswerAlphabet] : n \in 0..MaxAnswer }

GivenAnswers ==
    { AnsStr(t) : t \in AnswerTexts } \cup { AnsList(<<t, <<"b">>>>) : t \in AnswerTexts }

\* qa={"q": answers} and qa_reg={r"(?P<n>\S)q": ["%(n)s", "b"]}
AnswerTables ==
    { [NoTable EXCEPT !.qa = << [q |-> <<"q">>, a |-> ans] >>, !.add_newline = nl] :
        ans \in GivenAnswers, nl \in BOOLEAN }
    \cup { [TableGroup EXCEPT !.add_newline = nl] : nl \in BOOLEAN }

AnswerArgs ==
    ArgsOf(Named({"RunQA"}), {DefaultCmd}, {Nothing}, {"None"}, {FALSE}, {Nothing},
           AnswerTables, {None},
           {Plan(<<"q", "q">>, 0, "exit"), Plan(<<"x", "q">>, 0, "exit")})

InitAnswers == InitWith(AnswerArgs)

NextAnswers ==
    \/ EngineQA
    \/ ChildWrite
    \/ ChildExit

SpecAnswers == InitAnswers /\ [][NextAnswers]_vars

\* the answers the caller gave for the one question of the table
GivenList ==
    LET given == IF args.qa # <<>> THEN args.qa[1].a ELSE args.qa_reg[1].a
    IN  IF given.kind = "str" THEN <<given.val>> ELSE given.val

\* the answer of the caller that is due at hit k: the answers take turns
GivenAt(k) == GivenList[((k - 1) % Len(GivenList)) + 1]

EndsWithNewline(a) == a # <<>> /\ a[Len(a)] = "\n"

\* C37: with add_newline every answer written to the child ends with a
\* newline: it is the caller's answer with one newline appended when that
\* answer does not end with one, and the caller's answer itself when it does,
\* and applying the rule twice changes nothing; without add_newline it is the
\* caller's answer as given (in all cases with the directives of a template
\* replaced by the text of their group).
C37_TrailingNewline ==
    IsQAClass(args.cls) =>
        /\ \A k \in 1..Len(hits) :
              LET given == GivenAt(k)
                  due == IF args.add_newline /\ ~EndsWithNewline(given)
                         THEN given \o <<"\n">> ELSE given
                  written == hits[k].written
              IN  /\ args.add_newline => EndsWithNewline(written)
                  /\ Len(written) = Len(due)
                  /\ \A i \in 1..Len(due) : due[i] # Directive => written[i] = due[i]
        /\ \A i \in 1..Len(GivenList) :
              AddNewline(AddNewline(GivenList[i])) = AddNewline(GivenList[i])

\* an answer given with its newline was written as it is, and after it an
\* answer given without one was written with one
C37_Witness ==
    /\ args.add_newline
    /\ args.qa # <<>> /\ args.qa[1].a = AnsList(<< <<"a", "\n">>, <<"b">> >>)
    /\ Len(hits) = 2
    /\ hits[1].written = <<"a", "\n">>
    /\ hits[2].written = <<"b", "\n">>

(***************************************************************************)
(* Claim C38: the composition of the shell command, read back.             *)
(***************************************************************************)
\* the parts of a text between its spaces that no backslash precedes
RECURSIVE SplitUnescaped(_, _, _)
SplitUnescaped(s, cur, after_backslash) ==
    IF s = <<>> THEN <<cur>>
    ELSE IF Head(s) = " " /\ ~after_backslash
         THEN <<cur>> \o SplitUnescaped(Tail(s), <<>>, FALSE)
         ELSE SplitUnescaped(Tail(s), Append(cur, Head(s)), Head(s) = Backslash)

\* every backslash-space of a part is a space again
RECURSIVE UnescapeSpaces(_)
UnescapeSpaces(part) ==
    IF part = <<>> THEN <<>>
    ELSE IF Head(part) = Backslash /\ Len(part) > 1 /\ part[2] = " "
         THEN <<" ">> \o UnescapeSpaces(Tail(Tail(part)))
         ELSE <<Head(part)>> \o UnescapeSpaces(Tail(part))

ReadBack(text) ==
    LET parts == SplitUnescaped(text, <<>>, FALSE)
    IN  [i \in 1..Len(parts) |-> UnescapeSpaces(parts[i])]

\* a shell class has composed its command
ShellComposed == ~args.cls.noshell /\ Pos("compose") # 0

EndsWithBackslash(token) == token # <<>> /\ token[Len(token)] = Backslash

\* C38 as stated: a shell class hands a string on as it is, and composes a
\* sequence of tokens into one string that, split at the spaces no backslash
\* precedes, gives the tokens back: as many, with their contents
C38_Original ==
    ShellComposed =>
        /\ args.cmd.kind = "str" => shellcmd = args.cmd
        /\ (CmdIsSequence(args.cmd) /\ args.cmd.val # <<>>) =>
              /\ shellcmd.kind = "str"
              /\ ReadBack(shellcmd.val) = args.cmd.val

\* it is so for the sequences none of whose tokens ends with a backslash
C38_NoTrailingBackslash ==
    ShellComposed =>
        /\ args.cmd.kind = "str" => shellcmd = args.cmd
        /\ (/\ CmdIsSequence(args.cmd) /\ args.cmd.val # <<>>
            /\ \A i \in 1..Len(args.cmd.val) : ~EndsWithBackslash(args.cmd.val[i])) =>
              /\ shellcmd.kind = "str"
              /\ ReadBack(shellcmd.val) = args.cmd.val

(***************************************************************************)
(* Claim C39: the caller's dictionaries and the private answer lists.      *)
(***************************************************************************)
\* the list s with its first r elements moved to its end
RotatedBy(s, r) == SubSeq(s, r + 1, Len(s)) \o SubSeq(s, 1, r)

Refused(call, item) ==
    \/ item.type # "str"
    \/ Truthy(call.tmpl_vals) /\ FormatFails(item.text, Get(call.tmpl_vals))
    \/ ~call.allow_spaces /\ HasSpace(CheckedText(call, item))

\* C40: after a call of add the list is the list of before followed by the
\* items of the call, formatted, in their order, up to the first item that
\* add refuses: all of them when the call returns, and when the call raises
\* the items before the refused one, which stay in the list, while the
\* refused item and those after it are not added.
C40_AddInOrder ==
    cmdcall.op = "add" =>
        LET elems == ElemsOf(cmdcall.items)
            old == Len(cmdcall.before)
            n == Len(cmdlist) - old
        IN  /\ IsPrefix(cmdcall.before, cmdlist)
            /\ n <= Len(elems)
            /\ \A i \in 1..n :
                  /\ ~Refused(cmdcall, elems[i])
                  /\ cmdlist[old + i] = StrObj(CheckedText(cmdcall, elems[i]))
            /\ cmdcall.raised = None => n = Len(elems)
            /\ cmdcall.raised # None => (n < Len(elems) /\ Refused(cmdcall, elems[n + 1]))

\* an add of two items to a list with an element: the first was appended, the
\* second was refused for its space, and the call raised
C40_Witness ==
    /\ cmdcall.op = "add" /\ cmdcall.raised = "ValueError"
    /\ cmdcall.before # <<>>
    /\ Len(ElemsOf(cmdcall.items)) = 2
    /\ cmdlist = Append(cmdcall.before, StrObj(<<"a">>))

====
